---- MODULE Spec2Model ----
(***************************************************************************)
(* A model of the broker statement merger and of the FIFO trade matching   *)
(* engine of src/broker_statement/mod.rs.                                  *)
(*                                                                         *)
(* BrokerStatement::read collects the partial statements of a directory    *)
(* and hands them to BrokerStatement::new_from, which sorts them by period *)
(* start, seeds an empty statement from the first one, merges them one by  *)
(* one, validates the joint statement and matches its sells against its    *)
(* buys (process_trades).  Dates are day numbers.                          *)
(***************************************************************************)
EXTENDS Integers, Sequences, FiniteSets, TLC

(***************************************************************************)
(* Bounds of the model.                                                    *)
(***************************************************************************)
Symbols == {"A", "B"}
NoSymbol == "-"

\* Partial statements per directory.
MaxStatements == 2
\* Period boundaries are days 1..MaxDate.
MaxDate == 4
\* A trade moves 1..MaxQuantity units.
MaxQuantity == 2

Dates == 1..MaxDate
Quantities == 1..MaxQuantity

Min(a, b) == IF a < b THEN a ELSE b

SeqsUpTo(S, n) == UNION {[1..k -> S] : k \in 0..n}

RECURSIVE SumSeq(_)
SumSeq(s) == IF s = <<>> THEN 0 ELSE Head(s) + SumSeq(Tail(s))

(***************************************************************************)
(* Trades (trades.rs is not part of the sources at hand: a buy starts with *)
(* nothing sold, a sell starts with no sources and is "processed" once it  *)
(* has some).                                                              *)
(*                                                                         *)
(* Amounts of a lot are decimals of DecimalDigits fractional digits, held   *)
(* as whole numbers of the last digit: the decimal type of the program     *)
(* keeps a bounded number of digits (dec!, normalize and is_sign_negative  *)
(* are its operations), so that a quotient is rounded to the last digit.   *)
(***************************************************************************)
DecimalDigits == 3

RECURSIVE pow10(_)
pow10(digits) == IF digits = 0 THEN 1 ELSE 10 * pow10(digits - 1)

DecimalScale == pow10(DecimalDigits)

decimal(units) == units * DecimalScale

\* Cash / u32 of line 244: the quotient rounded, half away from zero, to the
\* last digit kept (amounts of lots are not negative).
decimal_div(amount, divisor) == (2 * amount + divisor) \div (2 * divisor)

\* Cash * u32 of line 244.
decimal_mul(amount, multiplier) == amount * multiplier

StockBuy(symbol, quantity, price, commission, conclusion_date, execution_date) ==
    [symbol |-> symbol, quantity |-> quantity, sold |-> 0,
     price |-> price, commission |-> commission,
     conclusion_date |-> conclusion_date, execution_date |-> execution_date]

StockSell(symbol, quantity, conclusion_date, execution_date) ==
    [symbol |-> symbol, quantity |-> quantity, sources |-> <<>>,
     conclusion_date |-> conclusion_date, execution_date |-> execution_date]

is_sold(stock_buy) == stock_buy.sold = stock_buy.quantity

get_unsold(stock_buy) == stock_buy.quantity - stock_buy.sold

sell(stock_buy, quantity) == [stock_buy EXCEPT !.sold = @ + quantity]

is_processed(stock_sell) == stock_sell.sources # <<>>

process(stock_sell, sources) == [stock_sell EXCEPT !.sources = sources]

\* Lines 241-248: the source of a sell, with the lot's price and the part of
\* the lot's commission that falls to the quantity sold: the commission is
\* divided by the lot's quantity first and multiplied by the quantity sold
\* after that (line 244).
StockSellSource(quantity, stock_buy) ==
    [quantity |-> quantity,
     price |-> stock_buy.price,
     commission |-> decimal_mul(decimal_div(stock_buy.commission,
                                            stock_buy.quantity), quantity),
     conclusion_date |-> stock_buy.conclusion_date,
     execution_date |-> stock_buy.execution_date]

(***************************************************************************)
(* Results.  Ok, or an error with the symbol or the tax ids it names (if    *)
(* any).                                                                   *)
(***************************************************************************)
Running == [kind |-> "Running", symbol |-> NoSymbol, taxes |-> {}]
Ok == [kind |-> "Ok", symbol |-> NoSymbol, taxes |-> {}]
Err(kind) == [kind |-> kind, symbol |-> NoSymbol, taxes |-> {}]
ErrSymbol(kind, symbol) == [kind |-> kind, symbol |-> symbol, taxes |-> {}]
ErrTaxes(kind, taxes) == [kind |-> kind, symbol |-> NoSymbol, taxes |-> taxes]

(***************************************************************************)
(* Stable sorts (Rust's sort_by and sort_by_key are stable).               *)
(***************************************************************************)
RECURSIVE insert_by_start(_, _)
insert_by_start(sorted, x) ==
    IF sorted = <<>> THEN <<x>>
    ELSE IF sorted[Len(sorted)].period[1] <= x.period[1] THEN Append(sorted, x)
    ELSE Append(insert_by_start(SubSeq(sorted, 1, Len(sorted) - 1), x),
                sorted[Len(sorted)])

RECURSIVE sort_by_start(_)
sort_by_start(statements) ==
    IF statements = <<>> THEN <<>>
    ELSE insert_by_start(
        sort_by_start(SubSeq(statements, 1, Len(statements) - 1)),
        statements[Len(statements)])

\* (conclusion_date, execution_date) tuples compare lexicographically.
trade_key_le(a, b) ==
    \/ a.conclusion_date < b.conclusion_date
    \/ /\ a.conclusion_date = b.conclusion_date
       /\ a.execution_date <= b.execution_date

RECURSIVE insert_by_trade_key(_, _)
insert_by_trade_key(sorted, x) ==
    IF sorted = <<>> THEN <<x>>
    ELSE IF trade_key_le(sorted[Len(sorted)], x) THEN Append(sorted, x)
    ELSE Append(insert_by_trade_key(SubSeq(sorted, 1, Len(sorted) - 1), x),
                sorted[Len(sorted)])

RECURSIVE sort_by_trade_key(_)
sort_by_trade_key(trades) ==
    IF trades = <<>> THEN <<>>
    ELSE insert_by_trade_key(
        sort_by_trade_key(SubSeq(trades, 1, Len(trades) - 1)),
        trades[Len(trades)])

\* Cash flows and dividends are sorted by their date.
RECURSIVE insert_by_date(_, _)
insert_by_date(sorted, x) ==
    IF sorted = <<>> THEN <<x>>
    ELSE IF sorted[Len(sorted)].date <= x.date THEN Append(sorted, x)
    ELSE Append(insert_by_date(SubSeq(sorted, 1, Len(sorted) - 1), x),
                sorted[Len(sorted)])

RECURSIVE sort_by_date(_)
sort_by_date(events) ==
    IF events = <<>> THEN <<>>
    ELSE insert_by_date(sort_by_date(SubSeq(events, 1, Len(events) - 1)),
                        events[Len(events)])

(***************************************************************************)
(* Statements.  A partial statement is what one parser run produced; the   *)
(* joint statement is the BrokerStatement under construction.  Open        *)
(* positions are a map symbol -> quantity, written as a set of pairs.      *)
(* Cash assets are the balance of one currency.                            *)
(***************************************************************************)
EmptyStatement ==
    [period |-> <<0, 0>>, cash_flows |-> <<>>, cash_assets |-> 0,
     stock_buys |-> <<>>, stock_sells |-> <<>>, dividends |-> <<>>,
     open_positions |-> {}]

\* new_empty_from without the check of the starting assets.
new_empty_from_unchecked(statement) ==
    [statement |->
         [EmptyStatement EXCEPT
             !.period = <<statement.period[1], statement.period[1]>>],
     result |-> Ok]

\* new_empty_from: the period collapses to its start; a statement with
\* non-zero starting assets cannot be the first one.
new_empty_from(statement) ==
    IF statement.starting_assets
    THEN [statement |-> EmptyStatement, result |-> Err("InvalidPeriod")]
    ELSE [statement |->
              [EmptyStatement EXCEPT
                  !.period = <<statement.period[1], statement.period[1]>>],
          result |-> Ok]

\* merge without the comparison of the periods.
periods_continuous_unchecked(self_period, period) == TRUE

\* merge, line 280: the next period starts where the joint one ends.
periods_continuous(self_period, period) == period[1] = self_period[2]

\* merge taking the whole period of the merged statement.
merged_period_replaced(self_period, period) == <<period[1], period[2]>>

\* merge, line 286: only the end of the period moves.
merged_period(self_period, period) == <<self_period[1], period[2]>>

\* merge summing the balances up.
merged_cash_assets_accumulated(self_cash_assets, cash_assets) ==
    self_cash_assets + cash_assets

\* merge, line 289: the balance of the merged statement replaces the old one.
merged_cash_assets(self_cash_assets, cash_assets) == cash_assets

merge(self, statement) ==
    IF ~periods_continuous(self.period, statement.period)
    THEN [statement |-> self, result |-> Err("NonContinuous")]
    ELSE [statement |->
              [period |-> merged_period(self.period, statement.period),
               cash_flows |-> self.cash_flows \o statement.cash_flows,
               cash_assets |-> merged_cash_assets(self.cash_assets,
                                                  statement.cash_assets),
               stock_buys |-> self.stock_buys \o statement.stock_buys,
               stock_sells |-> self.stock_sells \o statement.stock_sells,
               dividends |-> self.dividends \o statement.dividends,
               open_positions |-> statement.open_positions],
          result |-> Ok]

(***************************************************************************)
(* Dividends and withholding taxes (dividends.rs and taxes.rs are not part *)
(* of the sources at hand).  A tax id is a <<date, description>> pair; the  *)
(* tax changes of an id are its signed adjustments, and their net tax is   *)
(* their sum.  Maps from tax ids are written as sets of <<id, value>>.     *)
(***************************************************************************)
TaxId(date, description) == <<date, description>>

Dividend(date, amount, paid_tax) ==
    [date |-> date, amount |-> amount, paid_tax |-> paid_tax]

DividendWithoutPaidTax(date, description, amount) ==
    [date |-> date, description |-> description, amount |-> amount]

keys(map) == {entry[1] : entry \in map}

get(map, key) == (CHOOSE entry \in map : entry[1] = key)[2]

remove(map, key) == {entry \in map : entry[1] # key}

\* TaxChanges::merge: the adjustments of the other fragment are added.
tax_changes_merge(existing, changes) == existing \o changes

\* TaxChanges::get_result_tax: the net of the adjustments; a fragment
\* without any adjustment has none.
get_result_tax(changes) ==
    [ok |-> changes # <<>>, amount |-> SumSeq(changes)]

\* DividendWithoutPaidTax::upgrade: the net tax of the dividend's tax id is
\* taken out of the map; without one nothing was withheld.
upgrade(dividend, taxes) ==
    LET tax_id == TaxId(dividend.date, dividend.description)
    IN IF tax_id \in keys(taxes)
       THEN [dividend |-> Dividend(dividend.date, dividend.amount,
                                   get(taxes, tax_id)),
             taxes |-> remove(taxes, tax_id)]
       ELSE [dividend |-> Dividend(dividend.date, dividend.amount, 0),
             taxes |-> taxes]

\* The accumulation keeping only the fragment of the latest statement.
accumulate_tax_changes_replacing(tax_changes, statement_tax_changes) ==
    {entry \in tax_changes : entry[1] \notin keys(statement_tax_changes)}
        \cup statement_tax_changes

\* new_from, lines 88-92: the fragments of a statement are merged into the
\* accumulated ones of the same tax id, or inserted.
accumulate_tax_changes(tax_changes, statement_tax_changes) ==
    {<<tax_id,
       IF tax_id \in keys(tax_changes)
       THEN IF tax_id \in keys(statement_tax_changes)
            THEN tax_changes_merge(get(tax_changes, tax_id),
                                   get(statement_tax_changes, tax_id))
            ELSE get(tax_changes, tax_id)
       ELSE get(statement_tax_changes, tax_id)>> :
        tax_id \in keys(tax_changes) \cup keys(statement_tax_changes)}

\* new_from, lines 98-106.
result_taxes(tax_changes) ==
    {<<entry[1], get_result_tax(entry[2]).amount>> : entry \in tax_changes}

\* new_from, lines 108-110: the deferred dividends are upgraded in order.
RECURSIVE upgrade_dividends(_, _, _)
upgrade_dividends(deferred, dividends, taxes) ==
    IF deferred = <<>> THEN [dividends |-> dividends, taxes |-> taxes]
    ELSE LET upgraded == upgrade(Head(deferred), taxes)
         IN upgrade_dividends(Tail(deferred),
                              Append(dividends, upgraded.dividend),
                              upgraded.taxes)

\* The check of line 112 left out.
taxes_consumed_unchecked(taxes) == TRUE

\* new_from, line 112.
taxes_consumed(taxes) == taxes = {}

(***************************************************************************)
(* Ordering of trades and validation of dates.                             *)
(***************************************************************************)
\* The loop without its comparison.
execution_ordered_unchecked(trades) == TRUE

\* The loop of order_stock_buys / order_stock_sells: no trade is executed
\* before its predecessor in the list.
execution_ordered(trades) ==
    \A i \in 1..(Len(trades) - 1) :
        ~(trades[i + 1].execution_date < trades[i].execution_date)

\* The list is sorted in place first, so it stays sorted when the check fails.
order_stock_buys(stock_buys) ==
    LET sorted == sort_by_trade_key(stock_buys)
    IN [trades |-> sorted, ok |-> execution_ordered(sorted)]

order_stock_sells(stock_sells) ==
    LET sorted == sort_by_trade_key(stock_sells)
    IN [trades |-> sorted, ok |-> execution_ordered(sorted)]

\* The closure without its second comparison.
validate_date_first_only(period, dates) ==
    \/ dates = <<>>
    \/ ~(dates[1] < period[1])

\* The validate_date closure, applied to a non-empty sorted list of dates.
validate_date(period, dates) ==
    \/ dates = <<>>
    \/ /\ ~(dates[1] < period[1])
       /\ ~(dates[Len(dates)] > period[2] - 1)

conclusion_dates(trades) == [i \in 1..Len(trades) |-> trades[i].conclusion_date]

dates_of(events) == [i \in 1..Len(events) |-> events[i].date]

validate(self) ==
    LET cash_flows == sort_by_date(self.cash_flows)
        dividends == sort_by_date(self.dividends)
        sorted == [self EXCEPT !.cash_flows = cash_flows, !.dividends = dividends]
        buys == order_stock_buys(self.stock_buys)
        with_buys == [sorted EXCEPT !.stock_buys = buys.trades]
        sells == order_stock_sells(self.stock_sells)
        with_sells == [with_buys EXCEPT !.stock_sells = sells.trades]
    IN IF ~buys.ok
       THEN [statement |-> with_buys, result |-> Err("BuyExecutionOrder")]
       ELSE IF ~sells.ok
       THEN [statement |-> with_sells, result |-> Err("SellExecutionOrder")]
       ELSE IF ~validate_date(self.period, dates_of(cash_flows))
       THEN [statement |-> with_sells, result |-> Err("CashFlowOutsidePeriod")]
       ELSE IF ~validate_date(self.period, conclusion_dates(buys.trades))
       THEN [statement |-> with_sells, result |-> Err("BuyOutsidePeriod")]
       ELSE IF ~validate_date(self.period, conclusion_dates(sells.trades))
       THEN [statement |-> with_sells, result |-> Err("SellOutsidePeriod")]
       ELSE IF ~validate_date(self.period, dates_of(dividends))
       THEN [statement |-> with_sells, result |-> Err("DividendOutsidePeriod")]
       ELSE [statement |-> with_sells, result |-> Ok]

(***************************************************************************)
(* Open positions.                                                         *)
(***************************************************************************)
RECURSIVE unsold_of_symbol(_, _)
unsold_of_symbol(stock_buys, symbol) ==
    IF stock_buys = <<>> THEN 0
    ELSE (IF Head(stock_buys).symbol = symbol
          THEN get_unsold(Head(stock_buys)) ELSE 0)
         + unsold_of_symbol(Tail(stock_buys), symbol)

\* The map with an entry for every symbol bought, sold out or not.
calculated_open_positions_of_all(stock_buys) ==
    {<<symbol, unsold_of_symbol(stock_buys, symbol)>> :
        symbol \in {stock_buys[i].symbol : i \in 1..Len(stock_buys)}}

\* The map built by validate_open_positions: sold lots are skipped, so a
\* symbol has an entry only if one of its lots is not sold.
calculated_open_positions(stock_buys) ==
    {<<symbol, unsold_of_symbol(stock_buys, symbol)>> :
        symbol \in {stock_buys[i].symbol :
                        i \in {j \in 1..Len(stock_buys) : ~is_sold(stock_buys[j])}}}

validate_open_positions(self) ==
    calculated_open_positions(self.stock_buys) = self.open_positions

(***************************************************************************)
(* process_trades.                                                         *)
(***************************************************************************)
\* unsold_stock_buys: the symbols that have an entry, and each entry's list.
NoUnsold == [keys |-> {}, vec |-> [symbol \in Symbols |-> <<>>]]

\* The loop below without the check of is_sold: every lot goes to the list
\* of its symbol.
RECURSIVE partition_buys_all(_, _, _, _)
partition_buys_all(buys, i, stock_buys, unsold) ==
    IF i = 0 THEN [stock_buys |-> stock_buys, unsold |-> unsold]
    ELSE partition_buys_all(buys, i - 1, stock_buys,
            [keys |-> unsold.keys \cup {buys[i].symbol},
             vec |-> [unsold.vec EXCEPT ![buys[i].symbol] = Append(@, buys[i])]])

\* Lines 202-217.  The drained list is walked backwards: a sold lot goes to
\* the new list, an unsold one to the end of its symbol's list.
RECURSIVE partition_buys(_, _, _, _)
partition_buys(buys, i, stock_buys, unsold) ==
    IF i = 0 THEN [stock_buys |-> stock_buys, unsold |-> unsold]
    ELSE IF is_sold(buys[i])
    THEN partition_buys(buys, i - 1, Append(stock_buys, buys[i]), unsold)
    ELSE partition_buys(buys, i - 1, stock_buys,
            [keys |-> unsold.keys \cup {buys[i].symbol},
             vec |-> [unsold.vec EXCEPT ![buys[i].symbol] = Append(@, buys[i])]])

\* The whole unsold part of the lot, whatever the sell still needs.
sell_quantity_whole_lot(remaining_quantity, stock_buy) == get_unsold(stock_buy)

\* Line 238.
sell_quantity(remaining_quantity, stock_buy) ==
    Min(remaining_quantity, get_unsold(stock_buy))

\* Taking the lot at the front of the list instead.
pop_front(symbol_buys) ==
    [stock_buy |-> symbol_buys[1],
     rest |-> SubSeq(symbol_buys, 2, Len(symbol_buys))]

\* Vec::pop, line 233: the lot at the end of a non-empty list.
pop(symbol_buys) ==
    [stock_buy |-> symbol_buys[Len(symbol_buys)],
     rest |-> SubSeq(symbol_buys, 1, Len(symbol_buys) - 1)]

\* The loop below, ending without an error when the lots run out.
RECURSIVE consume_lots_lenient(_, _, _, _)
consume_lots_lenient(remaining_quantity, sources, symbol_buys, stock_buys) ==
    IF ~(remaining_quantity > 0) \/ symbol_buys = <<>>
    THEN [ok |-> TRUE, sources |-> sources, symbol_buys |-> symbol_buys,
          stock_buys |-> stock_buys]
    ELSE LET stock_buy == pop(symbol_buys).stock_buy
             rest == pop(symbol_buys).rest
             quantity == sell_quantity(remaining_quantity, stock_buy)
             sold_buy == sell(stock_buy, quantity)
         IN IF is_sold(sold_buy)
            THEN consume_lots_lenient(remaining_quantity - quantity,
                    Append(sources, StockSellSource(quantity, stock_buy)),
                    rest, Append(stock_buys, sold_buy))
            ELSE consume_lots_lenient(remaining_quantity - quantity,
                    Append(sources, StockSellSource(quantity, stock_buy)),
                    Append(rest, sold_buy), stock_buys)

\* Lines 232-258: the lot at the end of the symbol's list is taken until the
\* sell is covered; a lot that is not sold out goes back to the end.
RECURSIVE consume_lots(_, _, _, _)
consume_lots(remaining_quantity, sources, symbol_buys, stock_buys) ==
    IF ~(remaining_quantity > 0)
    THEN [ok |-> TRUE, sources |-> sources, symbol_buys |-> symbol_buys,
          stock_buys |-> stock_buys]
    ELSE IF symbol_buys = <<>>
    THEN [ok |-> FALSE, sources |-> sources, symbol_buys |-> symbol_buys,
          stock_buys |-> stock_buys]
    ELSE LET stock_buy == pop(symbol_buys).stock_buy
             rest == pop(symbol_buys).rest
             quantity == sell_quantity(remaining_quantity, stock_buy)
             sold_buy == sell(stock_buy, quantity)
         IN IF is_sold(sold_buy)
            THEN consume_lots(remaining_quantity - quantity,
                    Append(sources, StockSellSource(quantity, stock_buy)),
                    rest, Append(stock_buys, sold_buy))
            ELSE consume_lots(remaining_quantity - quantity,
                    Append(sources, StockSellSource(quantity, stock_buy)),
                    Append(rest, sold_buy), stock_buys)

\* Lines 219-261: the sells in list order; a processed sell is skipped.
RECURSIVE match_sells(_, _, _, _)
match_sells(stock_sells, i, stock_buys, unsold) ==
    IF i > Len(stock_sells)
    THEN [result |-> Ok, stock_sells |-> stock_sells,
          stock_buys |-> stock_buys, unsold |-> unsold]
    ELSE IF is_processed(stock_sells[i])
    THEN match_sells(stock_sells, i + 1, stock_buys, unsold)
    ELSE IF stock_sells[i].symbol \notin unsold.keys
    THEN [result |-> ErrSymbol("NoOpenPositions", stock_sells[i].symbol),
          stock_sells |-> stock_sells, stock_buys |-> stock_buys,
          unsold |-> unsold]
    ELSE LET lots == consume_lots(stock_sells[i].quantity, <<>>,
                                  unsold.vec[stock_sells[i].symbol], stock_buys)
         IN IF ~lots.ok
            THEN [result |-> ErrSymbol("NoOpenPositions", stock_sells[i].symbol),
                  stock_sells |-> stock_sells, stock_buys |-> stock_buys,
                  unsold |-> unsold]
            ELSE match_sells(
                    [stock_sells EXCEPT ![i] = process(@, lots.sources)],
                    i + 1, lots.stock_buys,
                    [unsold EXCEPT !.vec[stock_sells[i].symbol] = lots.symbol_buys])

\* The drain that takes the lots of the first symbol only.
drain_unsold_first(unsold, order) == unsold.vec[Head(order)]

\* Lines 263-265: the map is drained in the order its hasher yields, given
\* here as a list of all symbols.
RECURSIVE drain_unsold(_, _)
drain_unsold(unsold, order) ==
    IF order = <<>> THEN <<>>
    ELSE unsold.vec[Head(order)] \o drain_unsold(unsold, Tail(order))

\* On an error in the matching loop the drained buy list is not restored.
\* The assert_eq of line 268 ends the program when the new list has not the
\* length of the old one.
process_trades(self, order) ==
    LET parted == partition_buys(self.stock_buys, Len(self.stock_buys),
                                 <<>>, NoUnsold)
        matched == match_sells(self.stock_sells, 1, parted.stock_buys,
                               parted.unsold)
        stock_buys == matched.stock_buys \o drain_unsold(matched.unsold, order)
        ordered == order_stock_buys(stock_buys)
        done == [self EXCEPT !.stock_buys = ordered.trades,
                             !.stock_sells = matched.stock_sells]
    IN IF matched.result # Ok
       THEN [statement |-> [self EXCEPT !.stock_buys = <<>>,
                                        !.stock_sells = matched.stock_sells],
             result |-> matched.result]
       ELSE IF Len(stock_buys) # Len(self.stock_buys)
       THEN [statement |-> [self EXCEPT !.stock_buys = <<>>,
                                        !.stock_sells = matched.stock_sells],
             result |-> Err("AssertEqFailed")]
       ELSE IF ~ordered.ok
       THEN [statement |-> done, result |-> Err("BuyExecutionOrder")]
       ELSE IF ~validate_open_positions(done)
       THEN [statement |-> done, result |-> Err("OpenPositionsMismatch")]
       ELSE [statement |-> done, result |-> Ok]

(***************************************************************************)
(* The directories read.  Two kinds of directory are enough to reach every *)
(* branch of new_from: several statements of any period that carry at     *)
(* most one trade each, and one statement with several trades.             *)
(***************************************************************************)
Periods == {period \in Dates \X Dates : period[1] < period[2]}

PartialStatement(period, starting_assets, stock_buys, stock_sells, open_positions) ==
    [period |-> period, starting_assets |-> starting_assets,
     cash_flows |-> <<>>, cash_assets |-> 0, stock_buys |-> stock_buys,
     stock_sells |-> stock_sells, dividends |-> <<>>,
     dividends_without_paid_tax |-> <<>>, tax_changes |-> {},
     open_positions |-> open_positions]

\* What a statement of a given period may hold in a directory of several:
\* nothing (with or without a position left open by an earlier statement,
\* or with assets it starts from), one unit bought or sold on its first
\* day, one unit bought on the day after its last day, or one unit sold on
\* the day before its first day.
SmallContents(period) ==
    {[starting_assets |-> FALSE, stock_buys |-> <<>>, stock_sells |-> <<>>,
      open_positions |-> {}],
     [starting_assets |-> TRUE, stock_buys |-> <<>>, stock_sells |-> <<>>,
      open_positions |-> {}],
     [starting_assets |-> FALSE, stock_buys |-> <<>>, stock_sells |-> <<>>,
      open_positions |-> {<<"A", 1>>}],
     [starting_assets |-> FALSE,
      stock_buys |-> <<StockBuy("A", 1, decimal(1), decimal(1), period[1], period[1])>>,
      stock_sells |-> <<>>, open_positions |-> {<<"A", 1>>}],
     [starting_assets |-> FALSE, stock_buys |-> <<>>,
      stock_sells |-> <<StockSell("A", 1, period[1], period[1])>>,
      open_positions |-> {}],
     [starting_assets |-> FALSE,
      stock_buys |-> <<StockBuy("A", 1, decimal(1), decimal(1), period[2], period[2])>>,
      stock_sells |-> <<>>, open_positions |-> {<<"A", 1>>}],
     [starting_assets |-> FALSE, stock_buys |-> <<>>,
      stock_sells |-> <<StockSell("A", 1, period[1] - 1, period[1] - 1)>>,
      open_positions |-> {}]}

SmallStatements ==
    UNION {{PartialStatement(period, contents.starting_assets, contents.stock_buys,
                             contents.stock_sells, contents.open_positions) :
                contents \in SmallContents(period)} :
              period \in Periods}

\* Trades are concluded and executed on the days of the period <<1, 3>>.
TradeDates == 1..2
TradePeriod == <<1, 3>>

Buys == {StockBuy(symbol, quantity, decimal(1), decimal(1), conclusion_date,
                  execution_date) :
            symbol \in Symbols, quantity \in Quantities,
            conclusion_date \in TradeDates, execution_date \in TradeDates}

Sells == {StockSell(symbol, quantity, conclusion_date, execution_date) :
            symbol \in Symbols, quantity \in Quantities,
            conclusion_date \in TradeDates, execution_date \in TradeDates}

\* Up to two buys and two sells, three trades in all.
TradeCounts == {counts \in (0..2) \X (0..2) : counts[1] + counts[2] <= 3}

RECURSIVE quantity_of_symbol(_, _)
quantity_of_symbol(trades, symbol) ==
    IF trades = <<>> THEN 0
    ELSE (IF Head(trades).symbol = symbol THEN Head(trades).quantity ELSE 0)
         + quantity_of_symbol(Tail(trades), symbol)

\* The units of a symbol bought and not sold.
net_position(stock_buys, stock_sells, symbol) ==
    quantity_of_symbol(stock_buys, symbol) - quantity_of_symbol(stock_sells, symbol)

net_positions(stock_buys, stock_sells) ==
    {<<symbol, net_position(stock_buys, stock_sells, symbol)>> :
        symbol \in {s \in Symbols : net_position(stock_buys, stock_sells, s) > 0}}

\* The open positions a statement may declare for its trades: the true ones,
\* or the true ones with one symbol's entry dropped, zeroed or off by one.
DeclaredPositions(stock_buys, stock_sells) ==
    LET true_positions == net_positions(stock_buys, stock_sells)
        without(symbol) == {entry \in true_positions : entry[1] # symbol}
        off_by_one(symbol) ==
            IF net_position(stock_buys, stock_sells, symbol) > 0
            THEN net_position(stock_buys, stock_sells, symbol) + 1
            ELSE 1
    IN {true_positions}
       \cup {without(symbol) : symbol \in Symbols}
       \cup {without(symbol) \cup {<<symbol, 0>>} : symbol \in Symbols}
       \cup {without(symbol) \cup {<<symbol, off_by_one(symbol)>>} : symbol \in Symbols}

\* Statements without trades: a balance and up to two events, each a cash
\* flow, a dividend with its tax, a dividend whose tax is not known yet, or
\* an adjustment of a withheld tax.
EventPeriods == {<<1, 2>>, <<2, 4>>}
EventDates == {1, 3}
DividendDates == {1}
Descriptions == {"X", "Y"}
TaxAmounts == {2, -1}
CashBalances == {0, 1}
EventCounts == {0, 1, 2}
StatementCounts == {1, 2}
NoDescription == "-"

Event(kind, date, description, amount) ==
    [kind |-> kind, date |-> date, description |-> description, amount |-> amount]

Events ==
    {Event("cash_flow", date, NoDescription, 1) : date \in EventDates}
    \cup {Event("dividend", date, NoDescription, 10) : date \in EventDates}
    \cup {Event("dividend_without_paid_tax", date, description, 10) :
              date \in DividendDates, description \in Descriptions}
    \cup {Event("tax", date, description, amount) :
              date \in DividendDates, description \in Descriptions,
              amount \in TaxAmounts}

\* The events of one kind, in their order.
events_of_kind(events, kind) ==
    LET of_kind(event) == event.kind = kind
    IN SelectSeq(events, of_kind)

\* The adjustments of one tax id, in their order.
changes_of(events, tax_id) ==
    LET of_id(event) ==
            event.kind = "tax" /\ TaxId(event.date, event.description) = tax_id
        selected == SelectSeq(events, of_id)
    IN [i \in 1..Len(selected) |-> selected[i].amount]

\* The partial statement a parser builds from the events in its input.
EventStatement(period, cash_assets, events) ==
    LET cash_flows == events_of_kind(events, "cash_flow")
        dividends == events_of_kind(events, "dividend")
        deferred == events_of_kind(events, "dividend_without_paid_tax")
        taxes == events_of_kind(events, "tax")
    IN [period |-> period, starting_assets |-> FALSE,
        cash_flows |-> [i \in 1..Len(cash_flows) |->
                           [date |-> cash_flows[i].date,
                            amount |-> cash_flows[i].amount]],
        cash_assets |-> cash_assets,
        stock_buys |-> <<>>, stock_sells |-> <<>>,
        dividends |-> [i \in 1..Len(dividends) |->
                          Dividend(dividends[i].date, dividends[i].amount, 1)],
        dividends_without_paid_tax |->
            [i \in 1..Len(deferred) |->
                DividendWithoutPaidTax(deferred[i].date, deferred[i].description,
                                       deferred[i].amount)],
        tax_changes |->
            {<<tax_id, changes_of(events, tax_id)>> :
                tax_id \in {TaxId(taxes[i].date, taxes[i].description) :
                               i \in 1..Len(taxes)}},
        open_positions |-> {}]

EventLists == UNION {[1..n -> Events] : n \in EventCounts}

EventStatements ==
    {EventStatement(period, cash_assets, events) :
        period \in EventPeriods, cash_assets \in CashBalances,
        events \in EventLists}

SymbolOrders ==
    {order \in [1..Cardinality(Symbols) -> Symbols] :
        \A i, j \in DOMAIN order : i # j => order[i] # order[j]}

(***************************************************************************)
(* The parser of delimited tables (ib/mod.rs).  A record is the list of    *)
(* its fields.  The handlers of the sections are not part of the sources   *)
(* at hand: a handler is given by its lists of data types and its flag for *)
(* totals, the handling of a record by a known handler is kept as the pair *)
(* <<header, record>> of the positions of the header it was handled under  *)
(* and of the record, and a known handler cannot parse the field "?".      *)
(***************************************************************************)
\* What csv::Reader yields for a record it cannot read.
CsvError == <<"csv error">>

Records ==
    {<<"Trades", "Header", "c1">>,
     <<"Trades", "Header", "c2">>,
     <<"Trades", "Data", "1">>,
     <<"Trades", "Data", "?">>,
     <<"Trades", "SubTotal", "1">>,
     <<"Trades", "">>,
     <<"Trades">>,
     <<"Deposits & Withdrawals", "Header", "c1">>,
     <<"Deposits & Withdrawals", "Data", "1">>,
     <<"Deposits & Withdrawals", "Data", "Total in USD">>,
     <<"Deposits & Withdrawals", "Notes", "Total">>,
     <<"Notes", "Header", "c1">>,
     <<"Notes", "Data", "1">>,
     <<"Notes", "Data">>,
     <<"Notes", "", "1">>,
     CsvError}

\* Records per document.
MaxRecords == 4

\* enum State, lines 50-54, with the empty Option that take() leaves.
StateNone == [tag |-> "None", record |-> 0]
StateRecord(record) == [tag |-> "Record", record |-> record]
StateHeader(record) == [tag |-> "Header", record |-> record]
StateTaken == [tag |-> "Taken", record |-> 0]

\* parse_header, lines 175-181.
parse_header(record) ==
    [name |-> record[1], fields |-> SubSeq(record, 3, Len(record)), offset |-> 2]

NoTypes == [some |-> FALSE, types |-> {}]
SomeTypes(types) == [some |-> TRUE, types |-> types]

TradesParser ==
    [name |-> "TradesParser", data_types |-> SomeTypes({"Data"}),
     skip_data_types |-> SomeTypes({"SubTotal", "Total"}), skip_totals |-> FALSE]

DepositsAndWithdrawalsParser ==
    [name |-> "DepositsAndWithdrawalsParser", data_types |-> SomeTypes({"Data"}),
     skip_data_types |-> NoTypes, skip_totals |-> TRUE]

UnknownRecordParser ==
    [name |-> "UnknownRecordParser", data_types |-> NoTypes,
     skip_data_types |-> NoTypes, skip_totals |-> FALSE]

\* The reader that yields the record it yielded before.
records_next_again(position) == position

\* Iterator::next of csv::StringRecordsIter, lines 76 and 115: the reader
\* moves on to the record after the one it yields.
records_next(position) == position + 1

\* The choice that gives every section the handler of the trades.
select_parser_known(name) == TradesParser

\* Lines 96-109 (two of the eleven known sections).
select_parser(name) ==
    CASE name = "Trades" -> TradesParser
      [] name = "Deposits & Withdrawals" -> DepositsAndWithdrawalsParser
      [] OTHER -> UnknownRecordParser

\* str::starts_with("Total"), on the fields of the records above.
starts_with_total(field) == field \in {"Total", "Total in USD"}

\* The checks of lines 129-139 in the other order: the list of the data
\* types of the handler first, the list of the types to skip after it.
filter_record_types_first(parser, fields) ==
    IF parser.data_types.some /\ fields[2] \notin parser.data_types.types
    THEN "invalid"
    ELSE IF /\ parser.skip_data_types.some
            /\ fields[2] \in parser.skip_data_types.types
    THEN "skip"
    ELSE IF parser.skip_totals /\ starts_with_total(fields[3])
    THEN "skip"
    ELSE "parse"

\* Lines 129-150: what becomes of a record of the active section: it is
\* skipped for its type (lines 129-133), invalid for its type (lines
\* 135-139), skipped as a record of totals (lines 148-150), or parsed.
filter_record(parser, fields) ==
    IF /\ parser.skip_data_types.some
       /\ fields[2] \in parser.skip_data_types.types
    THEN "skip"
    ELSE IF parser.data_types.some /\ fields[2] \notin parser.data_types.types
    THEN "invalid"
    ELSE IF parser.skip_totals /\ starts_with_total(fields[3])
    THEN "skip"
    ELSE "parse"

\* RecordParser::parse of the handler: what it makes of the statement.
parser_parse(parser, parsed, header, record, fields) ==
    IF parser = UnknownRecordParser THEN [ok |-> TRUE, statement |-> parsed]
    ELSE IF fields[3] = "?" THEN [ok |-> FALSE, statement |-> parsed]
    ELSE [ok |-> TRUE, statement |-> Append(parsed, <<header, record>>)]

\* The comparison of line 121 left out.
other_section_never(spec, fields) == FALSE

\* Line 121: the record is of another section than the active one.
other_section(spec, fields) == fields[1] # spec.name

\* The change of section that drops the record.
redispatch_dropping(spec, record, fields) == StateNone

\* Lines 121-127: the state a record that ends the active section is
\* handed over in.
redispatch(spec, record, fields) ==
    IF other_section(spec, fields) THEN StateRecord(record) ELSE StateHeader(record)

(***************************************************************************)
(* Countries and their taxes (localities.rs).  Amounts are whole numbers   *)
(* of hundredths of the unit of the currency, as the amounts of two        *)
(* decimal places of the statements are.                                   *)
(***************************************************************************)
\* Option<Decimal>.
None == [some |-> FALSE, value |-> 0]
Some(value) == [some |-> TRUE, value |-> value]

\* The hundredths in a step of the given number of decimal places.
step_of(precision) == IF precision = 0 THEN 100 ELSE IF precision = 1 THEN 10 ELSE 1

\* The quotient of two whole numbers, the second positive, rounded to the
\* nearest whole number, a half away from zero.
round_div(numerator, denominator) ==
    IF numerator >= 0
    THEN (2 * numerator + denominator) \div (2 * denominator)
    ELSE 0 - ((2 * (0 - numerator) + denominator) \div (2 * denominator))

\* currency::round_to of the amount numerator / denominator.
round_to(numerator, denominator, precision) ==
    step_of(precision) * round_div(numerator, denominator * step_of(precision))

\* The rate of the tax of the United States, in percent.
UsTaxRate == 15

\* localities::russia, lines 46-52; the rate is in percent.
russia == [currency |-> "RUB", tax_rate |-> 13, tax_precision |-> 0]

\* localities::us.
us == [currency |-> "USD", tax_rate |-> UsTaxRate, tax_precision |-> 2]

\* Country::round_tax, lines 16-22, of the amount numerator / denominator.
round_tax(country, numerator, denominator) ==
    round_to(numerator, denominator, country.tax_precision)

\* Line 32: assert!(!paid_tax.is_sign_negative()).
paid_tax_asserted(paid_tax) == paid_tax >= 0

\* The deduction that may exceed the tax.
deduct_tax_unbounded(tax, tax_deduction) == tax - tax_deduction

\* Lines 35-39.
deduct_tax(tax, tax_deduction) ==
    IF tax_deduction < tax THEN tax - tax_deduction ELSE 0

\* Country::tax_to_pay, lines 24-43: whether it panics, and what it returns.
tax_to_pay(country, income, paid_tax) ==
    IF income <= 0 THEN [panic |-> FALSE, value |-> 0]
    ELSE LET tax == round_tax(country, income * country.tax_rate, 100)
         IN IF paid_tax.some
            THEN IF ~paid_tax_asserted(paid_tax.value)
                 THEN [panic |-> TRUE, value |-> 0]
                 ELSE [panic |-> FALSE,
                       value |-> deduct_tax(tax, round_tax(country, paid_tax.value, 1))]
            ELSE [panic |-> FALSE, value |-> tax]

\* The income taken for the gross one.
deduce_income_net(country, result_income) == result_income

\* The largest income of a call.
MaxIncome == 2000

\* The paid taxes of the calls.
PaidTaxes == {None} \cup {Some(value) : value \in {0 - 1, 0, 49, 50, 51, 100, 200}}

\* Country::deduce_income: the income before the tax that leaves the given
\* one, rounded to two decimal places.
deduce_income(country, result_income) ==
    round_to(result_income * 100, 100 - country.tax_rate, 2)

(***************************************************************************)
(* The parser of tagged documents (firstrade/transactions.rs).  Amounts    *)
(* are whole numbers of the smallest unit of the currency.                 *)
(***************************************************************************)
\* The largest amount, quantity and price of a transaction.
MaxAmount == 1

\* validate_sub_account of firstrade/common.rs.
validate_sub_account(name) == name = "CASH"

\* util::validate_named_decimal with a DecimalRestrictions value.
validate_named_decimal(value, restrictions) ==
    CASE restrictions = "StrictlyPositive" -> value > 0
      [] restrictions = "StrictlyNegative" -> value < 0
      [] restrictions = "PositiveOrZero" -> value >= 0
      [] restrictions = "NegativeOrZero" -> value <= 0
      [] restrictions = "NonZero" -> value # 0
      [] OTHER -> TRUE

\* Decimal::abs.
abs(value) == IF value < 0 THEN 0 - value ELSE value

\* Cash::round, to the smallest unit of the currency.
round(amount) == amount

\* The PartialBrokerStatement of the parser before Transactions::parse.
NoTransactionsParsed ==
    [cash_flows |-> <<>>, stock_buys |-> <<>>, stock_sells |-> <<>>,
     idle_cash_interest |-> <<>>, dividends |-> <<>>]

\* The match of lines 113-119 with one of the two names only.
is_ffs_transfer_from(name) == name = "XFER CASH FROM FFS"

\* Lines 113-119: the names of the transfers of the lending programme.
is_ffs_transfer(name) == name \in {"XFER CASH FROM FFS", "XFER FFS TO CASH"}

\* CashFlowInfo::parse, lines 107-134: the error or Ok, the statement and
\* the balance of the transfers after it.
cash_flow_parse(cash_flow, parser, balance) ==
    LET transaction == cash_flow.transaction
    IN IF is_ffs_transfer(transaction.name)
       THEN [result |-> Ok, statement |-> parser,
             ffs_balance |-> balance + transaction.amount]
       ELSE IF transaction.type # "CREDIT"
       THEN [result |-> Err("CashFlowType"), statement |-> parser, ffs_balance |-> balance]
       ELSE IF ~validate_sub_account(cash_flow.sub_account)
       THEN [result |-> Err("SubAccount"), statement |-> parser, ffs_balance |-> balance]
       ELSE IF ~validate_named_decimal(transaction.amount, "StrictlyPositive")
       THEN [result |-> Err("TransactionAmount"), statement |-> parser,
             ffs_balance |-> balance]
       ELSE [result |-> Ok,
             statement |-> [parser EXCEPT !.cash_flows =
                 Append(@, [date |-> transaction.date, amount |-> transaction.amount])],
             ffs_balance |-> balance]

\* The commission and the fees validated as their sum.
validate_commission_total(commission, fees) ==
    [ok |-> validate_named_decimal(commission + fees, "PositiveOrZero"),
     error |-> "Commission", amount |-> commission + fees]

\* Lines 206-212: the commission, then the fees, then their sum.
validate_commission(commission, fees) ==
    IF ~validate_named_decimal(commission, "PositiveOrZero")
    THEN [ok |-> FALSE, error |-> "Commission", amount |-> 0]
    ELSE IF ~validate_named_decimal(fees, "PositiveOrZero")
    THEN [ok |-> FALSE, error |-> "Fees", amount |-> 0]
    ELSE [ok |-> TRUE, error |-> "-", amount |-> commission + fees]

\* Lines 214-230: the volume of the trade from its total.
trade_volume(total, commission, buy) ==
    IF buy THEN abs(total) - commission ELSE abs(total) + commission

\* StockTradeTransaction::parse, lines 184-245; debug tells whether
\* debug_assert_eq! of line 231 is compiled in.
stock_trade_parse(transaction, parser, buy, debug) ==
    LET commission == validate_commission(transaction.commission, transaction.fees)
        quantity == abs(transaction.units)
        volume == trade_volume(transaction.total, commission.amount, buy)
        trade == [symbol |-> transaction.security_id, quantity |-> quantity,
                  price |-> transaction.price, volume |-> volume,
                  commission |-> commission.amount]
    IN IF ~validate_sub_account(transaction.sub_account_from)
       THEN [result |-> Err("SubAccount"), statement |-> parser]
       ELSE IF ~validate_sub_account(transaction.sub_account_to)
       THEN [result |-> Err("SubAccount"), statement |-> parser]
       ELSE IF transaction.security = "Unknown"
       THEN [result |-> Err("SecurityInfo"), statement |-> parser]
       ELSE IF transaction.security # "Stock"
       THEN [result |-> Err("SecurityType"), statement |-> parser]
       ELSE IF ~validate_named_decimal(transaction.units,
                   IF buy THEN "StrictlyPositive" ELSE "StrictlyNegative")
       THEN [result |-> Err("TradeQuantity"), statement |-> parser]
       ELSE IF ~validate_named_decimal(transaction.price, "StrictlyPositive")
       THEN [result |-> Err("Price"), statement |-> parser]
       ELSE IF ~commission.ok
       THEN [result |-> Err(commission.error), statement |-> parser]
       ELSE IF ~validate_named_decimal(transaction.total,
                   IF buy THEN "StrictlyNegative" ELSE "StrictlyPositive")
       THEN [result |-> Err("TradeVolume"), statement |-> parser]
       ELSE IF debug /\ volume # round(transaction.price * quantity)
       THEN [result |-> Err("DebugAssertEq"), statement |-> parser]
       ELSE IF buy
       THEN [result |-> Ok,
             statement |-> [parser EXCEPT !.stock_buys = Append(@, trade)]]
       ELSE [result |-> Ok,
             statement |-> [parser EXCEPT !.stock_sells = Append(@, trade)]]

\* The cash flow transactions of the documents.
CashFlowNames == {"XFER CASH FROM FFS", "XFER FFS TO CASH", "DEPOSIT"}

CashFlowInfos ==
    {[transaction |-> [type |-> type, date |-> 1, amount |-> amount, name |-> name],
      sub_account |-> sub_account] :
        type \in {"CREDIT", "DEBIT"}, amount \in (0 - MaxAmount)..MaxAmount,
        name \in CashFlowNames, sub_account \in {"CASH", "MARGIN"}}

\* Cash flows per document.
CashFlowCounts == {0, 1, 2, 3}

\* The stock trades of the documents; the total is up to the amount of the
\* trade and its commission.
StockTradeTransactions ==
    {[security_id |-> "A", security |-> security, units |-> units, price |-> price,
      commission |-> commission, fees |-> fees, total |-> total,
      sub_account_to |-> sub_account_to, sub_account_from |-> sub_account_from] :
        security \in {"Stock", "Interest", "Unknown"},
        units \in (0 - MaxAmount)..MaxAmount,
        price \in (0 - MaxAmount)..MaxAmount,
        commission \in (0 - MaxAmount)..MaxAmount,
        fees \in (0 - MaxAmount)..MaxAmount,
        total \in (0 - 2 * MaxAmount)..(2 * MaxAmount),
        sub_account_to \in {"CASH", "MARGIN"},
        sub_account_from \in {"CASH", "MARGIN"}}

NoTransactions ==
    [cash_flows |-> <<>>, stock_buys |-> <<>>, other_buys |-> <<>>,
     stock_sells |-> <<>>, income |-> <<>>]

\* Line 311: the description of a dividend that is not supported.
TaxWithheldMemo == "X NON-QUALIFIED DIVIDEND NON-RES TAX WITHHELD"

ends_with_tax_withheld(memo) == memo = TaxWithheldMemo

\* Lines 315-317: the amount and the paid tax deduced from the income of
\* a dividend.
dividend_amounts(income) ==
    LET amount == deduce_income(us, income)
    IN [amount |-> amount, paid_tax |-> amount - income]

\* The flag that is never cleared.
warned_flag_kept(flag) == flag

\* Line 308: the flag after the diagnostic.
warned_flag(flag) == FALSE

\* IncomeInfo::parse_dividend, lines 297-328; warn is the flag of the
\* reader, warned tells whether the diagnostic was emitted.
parse_dividend(income, parser, amount, warn, debug) ==
    LET deduced == dividend_amounts(amount)
        flag == IF warn THEN warned_flag(warn) ELSE warn
        dividend == [date |-> income.conclusion_date, issuer |-> income.security_id,
                     amount |-> deduced.amount, paid_tax |-> deduced.paid_tax]
    IN IF ends_with_tax_withheld(income.memo)
       THEN [result |-> Err("DividendDescription"), statement |-> parser,
             warn |-> flag, warned |-> warn]
       ELSE IF debug /\ deduced.paid_tax # tax_to_pay(us, deduced.amount, None).value
       THEN [result |-> Err("DebugAssertEq"), statement |-> parser,
             warn |-> flag, warned |-> warn]
       ELSE [result |-> Ok,
             statement |-> [parser EXCEPT !.dividends = Append(@, dividend)],
             warn |-> flag, warned |-> warn]

\* The check of the settlement date left out.
same_day_unchecked(income) == TRUE

\* Lines 269-274.
same_day(income) == income.execution_date = income.conclusion_date

\* IncomeInfo::parse, lines 264-295.
income_parse(income, parser, warn, debug) ==
    LET failed(kind) == [result |-> Err(kind), statement |-> parser,
                         warn |-> warn, warned |-> FALSE]
    IN IF ~validate_sub_account(income.sub_account_from) THEN failed("SubAccount")
       ELSE IF ~validate_sub_account(income.sub_account_to) THEN failed("SubAccount")
       ELSE IF ~same_day(income) THEN failed("SettlementDate")
       ELSE IF income.security = "Unknown" THEN failed("SecurityInfo")
       ELSE IF income.type = "MISC" /\ income.security = "Interest"
       THEN IF ~validate_named_decimal(income.total, "NonZero")
            THEN failed("InterestAmount")
            ELSE [result |-> Ok,
                  statement |-> [parser EXCEPT !.idle_cash_interest =
                      Append(@, [date |-> income.conclusion_date,
                                 amount |-> income.total])],
                  warn |-> warn, warned |-> FALSE]
       ELSE IF income.type = "DIV" /\ income.security = "Stock"
       THEN IF ~validate_named_decimal(income.total, "StrictlyPositive")
            THEN failed("DividendAmount")
            ELSE parse_dividend(income, parser, income.total, warn, debug)
       ELSE failed("UnsupportedIncome")

\* The totals of the income records.
IncomeTotals == ((0 - MaxAmount)..MaxAmount) \cup {85}

\* The income records of the documents.
IncomeInfos ==
    {[type |-> type, security_id |-> "A", security |-> security, total |-> total,
      conclusion_date |-> 1, execution_date |-> execution_date, memo |-> memo,
      sub_account_to |-> sub_accounts[1], sub_account_from |-> sub_accounts[2]] :
        type \in {"MISC", "DIV", "INT"},
        security \in {"Stock", "Interest", "Unknown"},
        total \in IncomeTotals,
        execution_date \in {1, 2},
        memo \in {"DIVIDEND", TaxWithheldMemo},
        sub_accounts \in {<<"CASH", "CASH">>, <<"CASH", "MARGIN">>, <<"MARGIN", "CASH">>}}

\* The records of dividends and of interest that are accepted but for
\* their description.
AcceptableIncomeInfos ==
    {income \in IncomeInfos :
        /\ income.execution_date = 1
        /\ income.sub_account_to = "CASH" /\ income.sub_account_from = "CASH"
        /\ \/ income.type = "DIV" /\ income.security = "Stock" /\ income.total > 0
           \/ /\ income.type = "MISC" /\ income.security = "Interest"
              /\ income.total = 1 /\ income.memo = "DIVIDEND"}

\* Income records per document.
IncomeCounts == {2, 3}

(***************************************************************************)
(* State.                                                                  *)
(***************************************************************************)
VARIABLES
    transactions,    \* Transactions::parse: the transactions of the document
    debug_assertions, \* whether the build has debug assertions
    fr_pc,           \* the loop Transactions::parse is in
    index,           \* the position in the list of that loop
    ffs_balance,     \* the balance of the transfers of the lending programme
    parser_statement, \* parser.statement
    warn_on_missing_dividend_details, \* parser.reader: the diagnostic is due
    warnings,        \* how many times the diagnostic was emitted
    country,         \* Country: self of the call
    income,          \* the income of the call
    paid_tax,        \* the paid tax of the call
    tax_pc,          \* "call", or the function that has returned
    tax,             \* what Country::tax_to_pay returned
    deduced_dividend, \* what parse_dividend made of the income
    fr_result,       \* what Transactions::parse returned
    records,         \* StatementParser::parse: the records of the document
    position,        \* the position of the record the reader yields next
    state,           \* the State of the loop
    spec,            \* the position of the header of the active section
    parsed,          \* what the handlers made of the partial statement
    ib_pc,           \* "top" of the loop, in the "rows" of a section, at the "end"
    ib_result,       \* what StatementParser::parse returned
    supplied,        \* the partial statements as BrokerStatement::read collected them
    statements,      \* new_from: the sorted statements not merged yet
    joint_statement, \* new_from: the statement under construction
    pc,              \* the step of new_from to take next
    result,          \* what new_from returned
    run,             \* how many times the directory has been read
    first,           \* what the first read of the directory returned
    dividends_without_paid_tax, \* new_from: the deferred dividends collected
    tax_changes,     \* new_from: the tax changes collected, by tax id
    taxes            \* new_from: the net taxes no dividend has taken yet

ib_vars == <<records, position, state, spec, parsed, ib_pc, ib_result>>

merger_vars == <<supplied, statements, joint_statement, pc, result, run, first,
                 dividends_without_paid_tax, tax_changes, taxes>>

reader_vars == <<warn_on_missing_dividend_details, warnings>>

fr_vars == <<transactions, debug_assertions, fr_pc, index, ffs_balance,
             parser_statement, fr_result, reader_vars>>

tax_vars == <<country, income, paid_tax, tax_pc, tax, deduced_dividend>>

vars == <<merger_vars, ib_vars, fr_vars, tax_vars>>

\* No function of a country is called.
NoTaxCall ==
    /\ country = russia
    /\ income = 0
    /\ paid_tax = None
    /\ tax_pc = "idle"
    /\ tax = [panic |-> FALSE, value |-> 0]
    /\ deduced_dividend = [amount |-> 0, paid_tax |-> 0]

\* No tagged document is parsed.
NoTransactionsDocument ==
    /\ transactions = NoTransactions
    /\ debug_assertions = FALSE
    /\ fr_pc = "idle"
    /\ index = 1
    /\ ffs_balance = 0
    /\ parser_statement = NoTransactionsParsed
    /\ fr_result = Running
    /\ warn_on_missing_dividend_details = TRUE
    /\ warnings = 0

\* No document is parsed.
NoDocument ==
    /\ records = <<>>
    /\ position = 1
    /\ state = StateNone
    /\ spec = 0
    /\ parsed = <<>>
    /\ ib_pc = "idle"
    /\ ib_result = Running

accumulators == <<dividends_without_paid_tax, tax_changes, taxes>>

\* A directory of several small statements.
SmallDirectory ==
    \E n \in 1..MaxStatements : supplied \in [1..n -> SmallStatements]

\* A directory of one statement with several trades.
TradeDirectory ==
    \E counts \in TradeCounts :
        \E stock_buys \in [1..counts[1] -> Buys],
           stock_sells \in [1..counts[2] -> Sells],
           starting_assets \in BOOLEAN :
            \E open_positions \in DeclaredPositions(stock_buys, stock_sells) :
                supplied = <<PartialStatement(TradePeriod, starting_assets,
                                              stock_buys, stock_sells,
                                              open_positions)>>

\* A directory of one statement of one symbol: one or two lots, bought on
\* different days at a price and a commission of their own, and up to two
\* sells on the last day, with the open positions the trades leave.
LotQuantities == {1, 2, 3}
LotPrices == {decimal(1), decimal(2)}
LotCommissions == {0, decimal(1), decimal(2)}
LotCounts == {1, 2}
LotSellCounts == {0, 1, 2}

CommissionDirectory ==
    \E lots \in LotCounts, sells \in LotSellCounts :
        \E quantity \in [1..lots -> LotQuantities],
           price \in [1..lots -> LotPrices],
           commission \in [1..lots -> LotCommissions],
           sold \in [1..sells -> LotQuantities] :
            LET stock_buys ==
                    [i \in 1..lots |->
                        StockBuy("A", quantity[i], price[i], commission[i], i, i)]
                stock_sells ==
                    [i \in 1..sells |-> StockSell("A", sold[i], 2, 2)]
            IN supplied = <<PartialStatement(
                                TradePeriod, FALSE, stock_buys, stock_sells,
                                net_positions(stock_buys, stock_sells))>>

\* A directory of statements without trades.
EventDirectory ==
    \E n \in StatementCounts : supplied \in [1..n -> EventStatements]

Init ==
    /\ SmallDirectory \/ TradeDirectory \/ EventDirectory \/ CommissionDirectory
    /\ dividends_without_paid_tax = <<>>
    /\ tax_changes = {}
    /\ taxes = {}
    /\ statements = <<>>
    /\ joint_statement = EmptyStatement
    /\ pc = "new_from"
    /\ result = Running
    /\ run = 1
    /\ first = [result |-> Running, statement |-> EmptyStatement]
    /\ NoDocument
    /\ NoTransactionsDocument
    /\ NoTaxCall

Fail(error) ==
    /\ pc' = "done"
    /\ result' = error

\* new_from, lines 79-83: sort by period start, seed from the first statement.
NewFrom ==
    /\ pc = "new_from"
    /\ LET sorted == sort_by_start(supplied)
           seed == new_empty_from(sorted[1])
       IN /\ joint_statement' = seed.statement
          /\ IF seed.result # Ok
             THEN /\ Fail(seed.result)
                  /\ UNCHANGED statements
             ELSE /\ statements' = sorted
                  /\ pc' = "merge"
                  /\ UNCHANGED result
    /\ UNCHANGED <<supplied, run, first, accumulators, ib_vars, fr_vars, tax_vars>>

\* new_from, lines 85-96: one turn of the loop.
Merge ==
    /\ pc = "merge"
    /\ dividends_without_paid_tax' =
          dividends_without_paid_tax \o Head(statements).dividends_without_paid_tax
    /\ tax_changes' =
          accumulate_tax_changes(tax_changes, Head(statements).tax_changes)
    /\ LET merged == merge(joint_statement, Head(statements))
       IN /\ joint_statement' = merged.statement
          /\ statements' = Tail(statements)
          /\ IF merged.result # Ok
             THEN Fail(merged.result)
             ELSE /\ pc' = IF Tail(statements) = <<>> THEN "taxes" ELSE "merge"
                  /\ UNCHANGED result
    /\ UNCHANGED <<supplied, run, first, taxes, ib_vars, fr_vars, tax_vars>>

\* new_from, lines 98-121: the net tax of every tax id, the deferred
\* dividends upgraded with them, and the check that no tax is left.
ResolveTaxes ==
    /\ pc = "taxes"
    /\ LET unresolved == {entry[1] : entry \in
                             {e \in tax_changes : ~get_result_tax(e[2]).ok}}
           upgraded == upgrade_dividends(dividends_without_paid_tax,
                                         joint_statement.dividends,
                                         result_taxes(tax_changes))
       IN IF unresolved # {}
          THEN /\ \E tax_id \in unresolved : Fail(ErrTaxes("TaxResult", {tax_id}))
               /\ UNCHANGED <<joint_statement, taxes>>
          ELSE /\ joint_statement' =
                     [joint_statement EXCEPT !.dividends = upgraded.dividends]
               /\ taxes' = upgraded.taxes
               /\ IF ~taxes_consumed(upgraded.taxes)
                  THEN Fail(ErrTaxes("UnknownTaxes", keys(upgraded.taxes)))
                  ELSE /\ pc' = "validate"
                       /\ UNCHANGED result
    /\ dividends_without_paid_tax' = <<>>
    /\ tax_changes' = {}
    /\ UNCHANGED <<supplied, statements, run, first, ib_vars, fr_vars, tax_vars>>

\* new_from, line 123.
Validate ==
    /\ pc = "validate"
    /\ LET validated == validate(joint_statement)
       IN /\ joint_statement' = validated.statement
          /\ IF validated.result # Ok
             THEN Fail(validated.result)
             ELSE /\ pc' = "process_trades"
                  /\ UNCHANGED result
    /\ UNCHANGED <<supplied, statements, run, first, accumulators, ib_vars, fr_vars, tax_vars>>

\* new_from, lines 124-126.
ProcessTrades ==
    /\ pc = "process_trades"
    /\ \E order \in SymbolOrders :
          LET processed == process_trades(joint_statement, order)
          IN /\ joint_statement' = processed.statement
             /\ Fail(processed.result)
    /\ UNCHANGED <<supplied, statements, run, first, accumulators, ib_vars, fr_vars, tax_vars>>

Next == NewFrom \/ Merge \/ ResolveTaxes \/ Validate \/ ProcessTrades

Spec == Init /\ [][Next]_vars

\* BrokerStatement::read is run once more on the same directory.
ReadAgain ==
    /\ pc = "done"
    /\ run = 1
    /\ run' = 2
    /\ first' = [result |-> result, statement |-> joint_statement]
    /\ statements' = <<>>
    /\ joint_statement' = EmptyStatement
    /\ pc' = "new_from"
    /\ result' = Running
    /\ dividends_without_paid_tax' = <<>>
    /\ tax_changes' = {}
    /\ taxes' = {}
    /\ UNCHANGED <<supplied, ib_vars, fr_vars, tax_vars>>

NextTwice ==
    NewFrom \/ Merge \/ ResolveTaxes \/ Validate \/ ProcessTrades \/ ReadAgain

SpecTwice == Init /\ [][NextTwice]_vars

(***************************************************************************)
(* Sell orders emulated on the statement new_from returned, each followed  *)
(* by process_trades.  The orders are for symbols the statement has        *)
(* bought; the day is any day, the price and the commission (which the     *)
(* broker's schedule gives, or fails to give) are fixed.                   *)
(***************************************************************************)
\* The sells a statement holds at most, emulated ones included.
MaxSells == 3
OrderPrice == 3
OrderCommission == 1

BoughtSymbols(statement) ==
    {statement.stock_buys[k].symbol : k \in DOMAIN statement.stock_buys}

\* emulate_sell_order, lines 176-195.
emulate_sell_order(self, symbol, quantity, price, commission, today) ==
    LET conclusion_date == today
        execution_date ==
            IF /\ self.stock_sells # <<>>
               /\ self.stock_sells[Len(self.stock_sells)].execution_date > today
            THEN self.stock_sells[Len(self.stock_sells)].execution_date
            ELSE today
    IN [self EXCEPT
           !.stock_sells = Append(@, StockSell(symbol, quantity, conclusion_date,
                                               execution_date)),
           !.cash_assets = @ + price * quantity - commission]

EmulateSellOrder ==
    /\ pc = "done"
    /\ result = Ok
    /\ Len(joint_statement.stock_sells) < MaxSells
    /\ \E symbol \in BoughtSymbols(joint_statement), quantity \in Quantities,
          today \in Dates :
          \/ /\ joint_statement' =
                   emulate_sell_order(joint_statement, symbol, quantity,
                                      OrderPrice, OrderCommission, today)
             /\ pc' = "process_trades"
             /\ result' = Running
          \/ /\ Fail(Err("TradeCommission"))
             /\ UNCHANGED joint_statement
    /\ UNCHANGED <<supplied, statements, run, first, accumulators, ib_vars, fr_vars, tax_vars>>

NextSell ==
    \/ NewFrom \/ Merge \/ ResolveTaxes \/ Validate \/ ProcessTrades
    \/ EmulateSellOrder

SpecSell == Init /\ [][NextSell]_vars

(***************************************************************************)
(* StatementParser::parse of ib/mod.rs: the loop over the records of one   *)
(* document.  Each turn of the outer loop and each turn of the loop over   *)
(* the records of a section is a step.                                     *)
(***************************************************************************)
\* No directory is read.
NoDirectory ==
    /\ supplied = <<>>
    /\ statements = <<>>
    /\ joint_statement = EmptyStatement
    /\ pc = "idle"
    /\ result = Running
    /\ run = 1
    /\ first = [result |-> Running, statement |-> EmptyStatement]
    /\ dividends_without_paid_tax = <<>>
    /\ tax_changes = {}
    /\ taxes = {}

InitIb ==
    /\ NoDirectory
    /\ NoTransactionsDocument
    /\ NoTaxCall
    /\ \E n \in 0..MaxRecords : records \in [1..n -> Records]
    /\ position = 1
    /\ state = StateNone
    /\ spec = 0
    /\ parsed = <<>>
    /\ ib_pc = "top"
    /\ ib_result = Running

IbFail(error) ==
    /\ ib_pc' = "done"
    /\ ib_result' = error
    /\ state' = StateTaken

\* Lines 74-79: the next record is read, or the loop ends with the input.
ParseNone ==
    /\ ib_pc = "top"
    /\ state.tag = "None"
    /\ IF position > Len(records)
       THEN /\ ib_pc' = "end"
            /\ state' = StateTaken
            /\ UNCHANGED <<position, ib_result>>
       ELSE /\ position' = records_next(position)
            /\ IF records[position] = CsvError
               THEN IbFail(Err("Csv"))
               ELSE /\ state' = StateRecord(position)
                    /\ UNCHANGED <<ib_pc, ib_result>>
    /\ UNCHANGED <<records, spec, parsed, merger_vars, fr_vars, tax_vars>>

\* Lines 80-93: a record outside of any section is a header, a record
\* without a header to skip, or invalid.
ParseRecord ==
    /\ ib_pc = "top"
    /\ state.tag = "Record"
    /\ LET fields == records[state.record]
       IN IF Len(fields) < 2
          THEN IbFail(Err("InvalidRecord"))
          ELSE IF fields[2] = "Header"
          THEN /\ state' = StateHeader(state.record)
               /\ UNCHANGED <<ib_pc, ib_result>>
          ELSE IF fields[2] = ""
          THEN /\ state' = StateNone
               /\ UNCHANGED <<ib_pc, ib_result>>
          ELSE IbFail(Err("InvalidRecord"))
    /\ UNCHANGED <<records, position, spec, parsed, merger_vars, fr_vars, tax_vars>>

\* Lines 94-113: the header becomes the active section.
ParseHeader ==
    /\ ib_pc = "top"
    /\ state.tag = "Header"
    /\ spec' = state.record
    /\ state' = StateTaken
    /\ ib_pc' = "rows"
    /\ UNCHANGED <<records, position, parsed, ib_result, merger_vars, fr_vars, tax_vars>>

\* Lines 115-157: one turn of the loop over the records of the section.
ParseRows ==
    /\ ib_pc = "rows"
    /\ LET header == parse_header(records[spec])
           parser == select_parser(header.name)
       IN IF position > Len(records)
          THEN /\ ib_pc' = "end"
               /\ UNCHANGED <<position, state, parsed, ib_result>>
          ELSE LET fields == records[position]
               IN /\ position' = records_next(position)
                  /\ IF fields = CsvError
                     THEN IbFail(Err("Csv")) /\ UNCHANGED parsed
                     ELSE IF Len(fields) < 3
                     THEN IbFail(Err("InvalidRecord")) /\ UNCHANGED parsed
                     ELSE IF other_section(header, fields) \/ fields[2] = "Header"
                     THEN /\ state' = redispatch(header, position, fields)
                          /\ ib_pc' = "top"
                          /\ UNCHANGED <<parsed, ib_result>>
                     ELSE IF filter_record(parser, fields) = "skip"
                     THEN UNCHANGED <<state, parsed, ib_pc, ib_result>>
                     ELSE IF filter_record(parser, fields) = "invalid"
                     THEN IbFail(Err("InvalidDataRecordType")) /\ UNCHANGED parsed
                     ELSE LET handled == parser_parse(parser, parsed, spec,
                                                      position, fields)
                          IN IF handled.ok
                             THEN /\ parsed' = handled.statement
                                  /\ UNCHANGED <<state, ib_pc, ib_result>>
                             ELSE IbFail(Err("RecordParse")) /\ UNCHANGED parsed
    /\ UNCHANGED <<records, spec, merger_vars, fr_vars, tax_vars>>

\* Lines 162-171: the cash assets and the validation of the partial
\* statement, whose outcome the handlers of the sections decide.
Finish ==
    /\ ib_pc = "end"
    /\ \E outcome \in {Ok, Err("InvalidStatement")} :
          /\ ib_result' = outcome
          /\ ib_pc' = "done"
    /\ UNCHANGED <<records, position, state, spec, parsed, merger_vars, fr_vars, tax_vars>>

NextIb == ParseNone \/ ParseRecord \/ ParseHeader \/ ParseRows \/ Finish

SpecIb == InitIb /\ [][NextIb]_vars

\* The loop of lines 72-160 runs on: a step that can be taken is taken.
SpecIbFair == SpecIb /\ WF_vars(NextIb)

(***************************************************************************)
(* Transactions::parse of firstrade/transactions.rs, a step per            *)
(* transaction and per check between the loops.                            *)
(***************************************************************************)
\* A document of cash flows.
CashFlowDocument ==
    \E n \in CashFlowCounts : \E cash_flows \in [1..n -> CashFlowInfos] :
        transactions = [NoTransactions EXCEPT !.cash_flows = cash_flows]

\* A document of one stock trade, in one of the three lists of trades.
TradeDocument ==
    \E transaction \in StockTradeTransactions :
        \/ \E type \in {"BUY", "BUYTOCOVER"} :
              transactions = [NoTransactions EXCEPT !.stock_buys =
                  <<[type |-> type, transaction |-> transaction]>>]
        \/ transactions = [NoTransactions EXCEPT !.other_buys =
                  <<[transaction |-> transaction]>>]
        \/ \E type \in {"SELL", "SELLSHORT"} :
              transactions = [NoTransactions EXCEPT !.stock_sells =
                  <<[type |-> type, transaction |-> transaction]>>]

\* A document of one income record, or of several acceptable ones.
IncomeDocument ==
    \/ \E info \in IncomeInfos :
          transactions = [NoTransactions EXCEPT !.income = <<info>>]
    \/ \E n \in IncomeCounts : \E infos \in [1..n -> AcceptableIncomeInfos] :
          transactions = [NoTransactions EXCEPT !.income = infos]

\* The reader is a new one, or one that has read documents before, which
\* may have cleared its flag.
InitFirstrade ==
    /\ NoDirectory
    /\ NoDocument
    /\ NoTaxCall
    /\ \/ /\ CashFlowDocument \/ TradeDocument
          /\ warn_on_missing_dividend_details = TRUE
       \/ /\ IncomeDocument
          /\ warn_on_missing_dividend_details \in BOOLEAN
    /\ debug_assertions \in BOOLEAN
    /\ fr_pc = "cash_flows"
    /\ index = 1
    /\ ffs_balance = 0
    /\ parser_statement = NoTransactionsParsed
    /\ fr_result = Running
    /\ warnings = 0

FrFail(error) ==
    /\ fr_pc' = "done"
    /\ fr_result' = error

\* The step of a loop over a list: the next loop after the last element,
\* the element's outcome otherwise.
FrLoop(list, next_pc, outcome) ==
    IF index > Len(list)
    THEN /\ fr_pc' = next_pc
         /\ index' = 1
         /\ UNCHANGED <<parser_statement, fr_result>>
    ELSE IF outcome.result = Ok
    THEN /\ parser_statement' = outcome.statement
         /\ index' = index + 1
         /\ UNCHANGED <<fr_pc, fr_result>>
    ELSE /\ FrFail(outcome.result)
         /\ UNCHANGED <<parser_statement, index>>

\* Lines 49-51.
ParseCashFlow ==
    /\ fr_pc = "cash_flows"
    /\ index <= Len(transactions.cash_flows)
    /\ LET parse == cash_flow_parse(transactions.cash_flows[index],
                                    parser_statement, ffs_balance)
       IN /\ ffs_balance' = parse.ffs_balance
          /\ IF parse.result = Ok
             THEN /\ parser_statement' = parse.statement
                  /\ index' = index + 1
                  /\ UNCHANGED <<fr_pc, fr_result>>
             ELSE /\ FrFail(parse.result)
                  /\ UNCHANGED <<parser_statement, index>>
    /\ UNCHANGED <<transactions, debug_assertions, reader_vars, merger_vars, ib_vars, tax_vars>>

\* Lines 53-55.
CheckFfsBalance ==
    /\ fr_pc = "cash_flows"
    /\ index > Len(transactions.cash_flows)
    /\ IF ffs_balance # 0
       THEN FrFail(Err("FfsBalance")) /\ UNCHANGED index
       ELSE /\ fr_pc' = "stock_buys"
            /\ index' = 1
            /\ UNCHANGED fr_result
    /\ UNCHANGED <<transactions, debug_assertions, reader_vars, ffs_balance, parser_statement,
                   merger_vars, ib_vars, tax_vars>>

\* Lines 57-62.
ParseStockBuy ==
    /\ fr_pc = "stock_buys"
    /\ FrLoop(transactions.stock_buys, "other_buys",
              LET stock_buy == transactions.stock_buys[index]
              IN IF stock_buy.type # "BUY"
                 THEN [result |-> Err("StockBuyType"), statement |-> parser_statement]
                 ELSE stock_trade_parse(stock_buy.transaction, parser_statement,
                                        TRUE, debug_assertions))
    /\ UNCHANGED <<transactions, debug_assertions, reader_vars, ffs_balance, merger_vars, ib_vars, tax_vars>>

\* Lines 64-66.
ParseOtherBuy ==
    /\ fr_pc = "other_buys"
    /\ FrLoop(transactions.other_buys, "stock_sells",
              stock_trade_parse(transactions.other_buys[index].transaction,
                                parser_statement, TRUE, debug_assertions))
    /\ UNCHANGED <<transactions, debug_assertions, reader_vars, ffs_balance, merger_vars, ib_vars, tax_vars>>

\* Lines 68-73.
ParseStockSell ==
    /\ fr_pc = "stock_sells"
    /\ FrLoop(transactions.stock_sells, "income",
              LET stock_sell == transactions.stock_sells[index]
              IN IF stock_sell.type # "SELL"
                 THEN [result |-> Err("StockSellType"), statement |-> parser_statement]
                 ELSE stock_trade_parse(stock_sell.transaction, parser_statement,
                                        FALSE, debug_assertions))
    /\ UNCHANGED <<transactions, debug_assertions, reader_vars, ffs_balance, merger_vars, ib_vars, tax_vars>>

\* Lines 75-79: the next income record, or Ok after the last one.
ParseIncome ==
    /\ fr_pc = "income"
    /\ IF index > Len(transactions.income)
       THEN /\ fr_pc' = "done"
            /\ fr_result' = Ok
            /\ UNCHANGED <<index, parser_statement, reader_vars>>
       ELSE LET parse == income_parse(transactions.income[index], parser_statement,
                                      warn_on_missing_dividend_details,
                                      debug_assertions)
            IN /\ warn_on_missing_dividend_details' = parse.warn
               /\ warnings' = IF parse.warned THEN warnings + 1 ELSE warnings
               /\ IF parse.result = Ok
                  THEN /\ parser_statement' = parse.statement
                       /\ index' = index + 1
                       /\ UNCHANGED <<fr_pc, fr_result>>
                  ELSE /\ FrFail(parse.result)
                       /\ UNCHANGED <<parser_statement, index>>
    /\ UNCHANGED <<transactions, debug_assertions, ffs_balance, merger_vars, ib_vars, tax_vars>>

NextFirstrade ==
    \/ ParseCashFlow
    \/ CheckFfsBalance
    \/ ParseStockBuy
    \/ ParseOtherBuy
    \/ ParseStockSell
    \/ ParseIncome

SpecFirstrade == InitFirstrade /\ [][NextFirstrade]_vars

(***************************************************************************)
(* The calls of Country::tax_to_pay and of the deduction of parse_dividend *)
(* (localities.rs, firstrade/transactions.rs 313-317).                     *)
(***************************************************************************)
InitLocalities ==
    /\ NoDirectory
    /\ NoDocument
    /\ NoTransactionsDocument
    /\ country \in {russia, us}
    /\ income \in (0 - MaxIncome)..MaxIncome
    /\ paid_tax \in PaidTaxes
    /\ tax_pc = "call"
    /\ tax = [panic |-> FALSE, value |-> 0]
    /\ deduced_dividend = [amount |-> 0, paid_tax |-> 0]

\* Country::tax_to_pay, lines 24-43.
TaxToPay ==
    /\ tax_pc = "call"
    /\ tax' = tax_to_pay(country, income, paid_tax)
    /\ tax_pc' = "tax_to_pay"
    /\ UNCHANGED <<country, income, paid_tax, deduced_dividend, merger_vars, ib_vars, fr_vars>>

\* Lines 313-317 of parse_dividend, for the validated income of a
\* dividend.
DeduceDividend ==
    /\ tax_pc = "call"
    /\ income > 0
    /\ country = us
    /\ deduced_dividend' = dividend_amounts(income)
    /\ tax_pc' = "parse_dividend"
    /\ UNCHANGED <<country, income, paid_tax, tax, merger_vars, ib_vars, fr_vars>>

NextLocalities == TaxToPay \/ DeduceDividend

SpecLocalities == InitLocalities /\ [][NextLocalities]_vars

(***************************************************************************)
(* What the properties below say about a directory, stated without the    *)
(* operators of the model above.                                           *)
(***************************************************************************)
Orderings(n) ==
    {order \in [1..n -> 1..n] : \A i, j \in 1..n : i # j => order[i] # order[j]}

\* The statements can be lined up so that each starts where the previous
\* one ends.
Continuous(list) ==
    \E order \in Orderings(Len(list)) :
        \A k \in 1..(Len(list) - 1) :
            list[order[k + 1]].period[1] = list[order[k]].period[2]

\* The statement with the earliest period start (the one supplied first
\* among several such).
FirstByStart(list) ==
    list[CHOOSE i \in DOMAIN list :
            \A j \in DOMAIN list :
                \/ list[i].period[1] < list[j].period[1]
                \/ list[i].period[1] = list[j].period[1] /\ i <= j]

LatestByStart(list) ==
    list[CHOOSE i \in DOMAIN list :
            \A j \in DOMAIN list : list[j].period[1] <= list[i].period[1]]

Returned == pc = "done"
ReturnedOk == pc = "done" /\ result = Ok
MergedAll ==
    \/ pc \in {"taxes", "validate", "process_trades"}
    \/ Returned /\ result.kind \notin {"InvalidPeriod", "NonContinuous"}

(***************************************************************************)
(* C1.  Merge continuity: new_from never returns a statement (nor gets     *)
(* past its merge loop) unless the periods, taken in order of their start, *)
(* are adjacent; once the first statement is accepted, it fails with the   *)
(* "Non-continuous periods" error exactly when they are not.               *)
(***************************************************************************)
C1_MergeContinuity ==
    /\ MergedAll => Continuous(supplied)
    /\ Returned /\ ~Continuous(supplied) =>
          /\ result # Ok
          /\ ~FirstByStart(supplied).starting_assets => result = Err("NonContinuous")
    /\ Returned /\ result.kind = "NonContinuous" => ~Continuous(supplied)

\* Scenario E: the first statement ends on day 2, the second starts on day 3.
C1_Witness ==
    /\ Returned
    /\ result = Err("NonContinuous")
    /\ Len(supplied) = 2
    /\ supplied[1].period = <<1, 2>>
    /\ supplied[2].period = <<3, 4>>

(***************************************************************************)
(* C2.  After a successful merge the period of the statement runs from the *)
(* start of the partial statement with the earliest start to the end of    *)
(* the one with the latest start, in whatever order they were supplied.    *)
(***************************************************************************)
C2_MergedPeriod ==
    MergedAll =>
        joint_statement.period =
            <<FirstByStart(supplied).period[1], LatestByStart(supplied).period[2]>>

\* Two statements supplied latest first.
C2_Witness ==
    /\ ReturnedOk
    /\ Len(supplied) = 2
    /\ supplied[2].period[1] < supplied[1].period[1]
    /\ joint_statement.period = <<supplied[2].period[1], supplied[1].period[2]>>

(***************************************************************************)
(* C8.  If the partial statement with the earliest period start declares   *)
(* non-zero starting assets, new_from fails with the "Invalid broker       *)
(* statement period" error before anything is merged; it fails so in no    *)
(* other case.                                                             *)
(***************************************************************************)
C8_StartingAssets ==
    /\ pc # "new_from" /\ FirstByStart(supplied).starting_assets =>
          /\ Returned
          /\ result = Err("InvalidPeriod")
          /\ joint_statement = EmptyStatement
          /\ statements = <<>>
    /\ result.kind = "InvalidPeriod" => FirstByStart(supplied).starting_assets

\* The offending statement was supplied last, and the one supplied first
\* would have been accepted.
C8_Witness ==
    /\ Returned
    /\ result = Err("InvalidPeriod")
    /\ Len(supplied) = 2
    /\ ~supplied[1].starting_assets
    /\ supplied[2].starting_assets
    /\ supplied[2].period[1] < supplied[1].period[1]

(***************************************************************************)
(* What the properties below say about trades.                             *)
(***************************************************************************)
Max(a, b) == IF a > b THEN a ELSE b

RECURSIVE SumOver(_, _)
\* The sum of amounts[i] over the indices i of `indices`.
SumOver(amounts, indices) ==
    IF indices = {} THEN 0
    ELSE LET i == CHOOSE i \in indices : TRUE
         IN amounts[i] + SumOver(amounts, indices \ {i})

QuantitiesOf(list) == [i \in DOMAIN list |-> list[i].quantity]
UnsoldOf(stock_buys) ==
    [i \in DOMAIN stock_buys |-> stock_buys[i].quantity - stock_buys[i].sold]

BagOf(list) ==
    [x \in {list[i] : i \in DOMAIN list} |->
        Cardinality({i \in DOMAIN list : list[i] = x})]

\* Sorted by (conclusion date, execution date).
KeySorted(trades) ==
    \A i, j \in DOMAIN trades :
        i < j =>
            \/ trades[i].conclusion_date < trades[j].conclusion_date
            \/ /\ trades[i].conclusion_date = trades[j].conclusion_date
               /\ trades[i].execution_date <= trades[j].execution_date

(***************************************************************************)
(* C3.  The quantities of the sources of a processed sell add up to the    *)
(* quantity of the sell.                                                   *)
(***************************************************************************)
C3_SourcesSum ==
    \A i \in DOMAIN joint_statement.stock_sells :
        LET stock_sell == joint_statement.stock_sells[i]
        IN stock_sell.sources # <<>> =>
              SumOver(QuantitiesOf(stock_sell.sources), DOMAIN stock_sell.sources)
                  = stock_sell.quantity

\* A sell of two units covered by two lots.
C3_Witness ==
    /\ ReturnedOk
    /\ \E i \in DOMAIN joint_statement.stock_sells :
          /\ joint_statement.stock_sells[i].quantity = 2
          /\ Len(joint_statement.stock_sells[i].sources) = 2

(***************************************************************************)
(* C4.  FIFO matching.  Lay the unsold units of a symbol's lots on a line, *)
(* lot after lot in the order of the buy list, which is sorted by          *)
(* (conclusion date, execution date), and the units of its sells after one *)
(* another in the order of the sell list: a sell gets one source per lot   *)
(* its units meet, in lot order, of as many units as they share, with the  *)
(* dates of the lot; a lot has sold the units that met a sell.             *)
(***************************************************************************)
\* The indices before k of the trades of the symbol of trades[k].
EarlierOfSymbol(trades, k) ==
    {m \in 1..(k - 1) : trades[m].symbol = trades[k].symbol}

\* The units lot k shares with the units [low, high) of its symbol's line.
SharedUnits(stock_buys, k, low, high) ==
    LET lot_low == SumOver(UnsoldOf(stock_buys), EarlierOfSymbol(stock_buys, k))
        lot_high == lot_low + UnsoldOf(stock_buys)[k]
    IN Max(0, Min(high, lot_high) - Max(low, lot_low))

FifoSources(stock_buys, stock_sells, i) ==
    LET low == SumOver(QuantitiesOf(stock_sells), EarlierOfSymbol(stock_sells, i))
        high == low + stock_sells[i].quantity
        shares == [k \in DOMAIN stock_buys |->
                      IF stock_buys[k].symbol = stock_sells[i].symbol
                      THEN SharedUnits(stock_buys, k, low, high) ELSE 0]
        lots == {k \in DOMAIN stock_buys : shares[k] > 0}
        \* the k-th smallest index of lots
        nth(n) == CHOOSE k \in lots : Cardinality({m \in lots : m < k}) = n - 1
    IN [n \in 1..Cardinality(lots) |->
           [quantity |-> shares[nth(n)],
            conclusion_date |-> stock_buys[nth(n)].conclusion_date,
            execution_date |-> stock_buys[nth(n)].execution_date]]

FifoLots(stock_buys, stock_sells) ==
    [k \in DOMAIN stock_buys |->
        LET sold == SumOver(QuantitiesOf(stock_sells),
                            {i \in DOMAIN stock_sells :
                                stock_sells[i].symbol = stock_buys[k].symbol})
        IN [stock_buys[k] EXCEPT
               !.sold = @ + SharedUnits(stock_buys, k, 0, sold)]]

\* The quantities and the dates of the sources.
MatchedLots(sources) ==
    [n \in DOMAIN sources |->
        [quantity |-> sources[n].quantity,
         conclusion_date |-> sources[n].conclusion_date,
         execution_date |-> sources[n].execution_date]]

C4_Fifo ==
    [][pc = "process_trades" =>
          /\ KeySorted(joint_statement.stock_buys)
          /\ \A i \in DOMAIN joint_statement'.stock_sells :
                joint_statement'.stock_sells[i].sources # <<>> =>
                    MatchedLots(joint_statement'.stock_sells[i].sources)
                        = FifoSources(joint_statement.stock_buys,
                                      joint_statement.stock_sells, i)
          /\ result'.kind # "NoOpenPositions" =>
                BagOf(joint_statement'.stock_buys)
                    = BagOf(FifoLots(joint_statement.stock_buys,
                                     joint_statement.stock_sells))]_vars

\* Scenario C in small: a sell of 2 against a lot of 1 and a later lot of 2,
\* supplied later lot first, takes 1 from each and leaves 1 in the later lot.
C4_Witness ==
    /\ ReturnedOk
    /\ Len(supplied[1].stock_buys) = 2
    /\ supplied[1].stock_buys[1].conclusion_date = 2
    /\ supplied[1].stock_buys[2].conclusion_date = 1
    /\ joint_statement.stock_buys =
          <<sell(StockBuy("A", 1, decimal(1), decimal(1), 1, 1), 1),
            sell(StockBuy("A", 2, decimal(1), decimal(1), 2, 2), 1)>>
    /\ Len(joint_statement.stock_sells) = 1
    /\ MatchedLots(joint_statement.stock_sells[1].sources) =
          <<[quantity |-> 1, conclusion_date |-> 1, execution_date |-> 1],
            [quantity |-> 1, conclusion_date |-> 2, execution_date |-> 2]>>

(***************************************************************************)
(* C5.  Every source of a sell comes from a buy concluded no later than    *)
(* the sell.                                                               *)
(***************************************************************************)
C5_PriorBuy ==
    \A i \in DOMAIN joint_statement.stock_sells :
        \A n \in DOMAIN joint_statement.stock_sells[i].sources :
            joint_statement.stock_sells[i].sources[n].conclusion_date
                <= joint_statement.stock_sells[i].conclusion_date

(***************************************************************************)
(* C6.  process_trades succeeds only if the declared open positions hold,  *)
(* for every symbol, the sum of the unsold quantities of its lots, and no  *)
(* entry for a symbol without unsold lots; it reports a mismatch only if   *)
(* they do not.                                                            *)
(***************************************************************************)
UnsoldOfSymbol(stock_buys, symbol) ==
    SumOver(UnsoldOf(stock_buys),
            {k \in DOMAIN stock_buys : stock_buys[k].symbol = symbol})

DeclaredAsCalculated(statement) ==
    /\ \A entry \in statement.open_positions : entry[1] \in Symbols
    /\ \A symbol \in Symbols :
          {entry \in statement.open_positions : entry[1] = symbol}
              = IF UnsoldOfSymbol(statement.stock_buys, symbol) > 0
                THEN {<<symbol, UnsoldOfSymbol(statement.stock_buys, symbol)>>}
                ELSE {}

C6_OpenPositions ==
    /\ ReturnedOk => DeclaredAsCalculated(joint_statement)
    /\ Returned /\ result.kind = "OpenPositionsMismatch" =>
          ~DeclaredAsCalculated(joint_statement)

\* One symbol sold out and without an entry, the other one still open.
C6_Witness ==
    /\ ReturnedOk
    /\ joint_statement.open_positions = {<<"A", 2>>}
    /\ \E k \in DOMAIN joint_statement.stock_buys :
          /\ joint_statement.stock_buys[k].symbol = "A"
          /\ joint_statement.stock_buys[k].sold = 0
    /\ \E k \in DOMAIN joint_statement.stock_buys :
          /\ joint_statement.stock_buys[k].symbol = "B"
          /\ joint_statement.stock_buys[k].sold = joint_statement.stock_buys[k].quantity

(***************************************************************************)
(* C7.  process_trades fails with the error that names the symbol of the   *)
(* first sell its symbol's unsold lots do not cover, be it that the symbol *)
(* has no unsold lot at all or that its lots run out; it fails so in no    *)
(* other case.                                                             *)
(***************************************************************************)
\* The unprocessed sells that, with the unprocessed sells of their symbol
\* before them, ask for more than the symbol's lots have unsold.
Uncovered(stock_buys, stock_sells) ==
    {i \in DOMAIN stock_sells :
        /\ stock_sells[i].sources = <<>>
        /\ SumOver(QuantitiesOf(stock_sells),
                   {j \in 1..i : /\ stock_sells[j].symbol = stock_sells[i].symbol
                                 /\ stock_sells[j].sources = <<>>})
              > UnsoldOfSymbol(stock_buys, stock_sells[i].symbol)}

C7_NoOpenPositions ==
    [][pc = "process_trades" =>
          LET uncovered == Uncovered(joint_statement.stock_buys,
                                     joint_statement.stock_sells)
              first_uncovered == CHOOSE i \in uncovered : \A j \in uncovered : i <= j
          IN IF uncovered # {}
             THEN result' = ErrSymbol("NoOpenPositions",
                                      joint_statement.stock_sells[first_uncovered].symbol)
             ELSE result'.kind # "NoOpenPositions"]_vars

\* The lots of the symbol run out: one unit bought, two sold at once, while
\* the other symbol still has an unsold lot.
C7_Witness ==
    /\ Returned
    /\ result = ErrSymbol("NoOpenPositions", "B")
    /\ Len(supplied) = 1
    /\ \E k \in DOMAIN supplied[1].stock_buys :
          supplied[1].stock_buys[k].symbol = "B" /\ supplied[1].stock_buys[k].quantity = 1
    /\ \E k \in DOMAIN supplied[1].stock_buys : supplied[1].stock_buys[k].symbol = "A"
    /\ Len(supplied[1].stock_sells) = 1
    /\ supplied[1].stock_sells[1].quantity = 2

(***************************************************************************)
(* C9.  Reading the same directory twice returns the same result and the   *)
(* same statement, the order of its buys and sells included.               *)
(***************************************************************************)
C9_Deterministic ==
    run = 2 /\ Returned =>
        /\ first.result = result
        /\ result = Ok => first.statement = joint_statement

(***************************************************************************)
(* C10.  In a statement returned by new_from the buys and the sells are    *)
(* sorted by (conclusion date, execution date) with execution dates that   *)
(* never decrease.  If one trade is concluded after another trade of its   *)
(* kind and executed before it, new_from fails; and it fails with the      *)
(* "unexpected execution order" error, for buys first, whenever it gets    *)
(* to validate the joint statement.                                        *)
(***************************************************************************)
ExecutionSorted(trades) ==
    \A i, j \in DOMAIN trades :
        i < j => trades[i].execution_date <= trades[j].execution_date

\* Some trade is concluded after another one and executed before it.
Misordered(trades) ==
    \E a, b \in trades :
        /\ a.conclusion_date < b.conclusion_date
        /\ b.execution_date < a.execution_date

SuppliedBuys ==
    UNION {{supplied[i].stock_buys[k] : k \in DOMAIN supplied[i].stock_buys} :
              i \in DOMAIN supplied}

SuppliedSells ==
    UNION {{supplied[i].stock_sells[k] : k \in DOMAIN supplied[i].stock_sells} :
              i \in DOMAIN supplied}

C10_ExecutionOrder ==
    /\ ReturnedOk =>
          /\ KeySorted(joint_statement.stock_buys)
          /\ KeySorted(joint_statement.stock_sells)
          /\ ExecutionSorted(joint_statement.stock_buys)
          /\ ExecutionSorted(joint_statement.stock_sells)
    /\ Returned /\ (Misordered(SuppliedBuys) \/ Misordered(SuppliedSells)) =>
          result # Ok
    /\ Returned /\ ~FirstByStart(supplied).starting_assets /\ Continuous(supplied)
          /\ result.kind \notin {"TaxResult", "UnknownTaxes"} =>
          /\ result = Err("BuyExecutionOrder") <=> Misordered(SuppliedBuys)
          /\ result = Err("SellExecutionOrder") <=>
                ~Misordered(SuppliedBuys) /\ Misordered(SuppliedSells)

\* Two sells, the one concluded later executed first; the list is left
\* sorted by conclusion date.
C10_Witness ==
    /\ Returned
    /\ result = Err("SellExecutionOrder")
    /\ Len(joint_statement.stock_sells) = 2
    /\ joint_statement.stock_sells[1].conclusion_date = 1
    /\ joint_statement.stock_sells[1].execution_date = 2
    /\ joint_statement.stock_sells[2].conclusion_date = 2
    /\ joint_statement.stock_sells[2].execution_date = 1
    /\ Len(joint_statement.stock_buys) = 1

(***************************************************************************)
(* What the properties below say about the lots of a statement.            *)
(***************************************************************************)
\* The lots as they were bought, whatever has been sold of them.
LotsOf(stock_buys) == [k \in DOMAIN stock_buys |-> [stock_buys[k] EXCEPT !.sold = 0]]

SuppliedSellCount ==
    SumOver([i \in DOMAIN supplied |-> Len(supplied[i].stock_sells)], DOMAIN supplied)

(***************************************************************************)
(* C11.  process_trades never stops at its assert_eq; when its matching    *)
(* completes, the buy list holds the lots it held before the call, each    *)
(* one once, none of them sold beyond its quantity.  This holds for the    *)
(* call new_from makes and for the calls that follow an emulated sell      *)
(* order, when some lots are sold already.                                 *)
(***************************************************************************)
C11_LotsKept ==
    [][pc = "process_trades" =>
          /\ result'.kind # "AssertEqFailed"
          /\ result'.kind # "NoOpenPositions" =>
                /\ Len(joint_statement'.stock_buys) = Len(joint_statement.stock_buys)
                /\ BagOf(LotsOf(joint_statement'.stock_buys))
                      = BagOf(LotsOf(joint_statement.stock_buys))
                /\ \A k \in DOMAIN joint_statement'.stock_buys :
                      joint_statement'.stock_buys[k].sold
                          \in 0..joint_statement'.stock_buys[k].quantity]_vars

\* After an emulated sell order: a lot sold out and a lot of which a part
\* is sold, both still in the list.
C11_Witness ==
    /\ Returned
    /\ result.kind = "OpenPositionsMismatch"
    /\ Len(joint_statement.stock_sells) = SuppliedSellCount + 1
    /\ joint_statement.stock_sells[Len(joint_statement.stock_sells)].sources # <<>>
    /\ Len(joint_statement.stock_buys) = 2
    /\ \E k, m \in DOMAIN joint_statement.stock_buys :
          /\ is_sold(joint_statement.stock_buys[k])
          /\ joint_statement.stock_buys[m].sold = 1
          /\ joint_statement.stock_buys[m].quantity = 2

(***************************************************************************)
(* C12.  Once all statements are merged, the cash assets and the open      *)
(* positions of the joint statement are those of the statement with the    *)
(* latest period alone, while its cash flows, buys, sells and dividends    *)
(* are those of all statements together.                                   *)
(***************************************************************************)
\* The events of one kind of all statements supplied, in any order.
RECURSIVE SuppliedEvents(_, _)
SuppliedEvents(list, field) ==
    IF list = <<>> THEN <<>>
    ELSE Head(list)[field] \o SuppliedEvents(Tail(list), field)

Unprocessed(stock_sells) ==
    [i \in DOMAIN stock_sells |-> [stock_sells[i] EXCEPT !.sources = <<>>]]

C12_SnapshotAndAccumulation ==
    /\ pc \in {"taxes", "validate", "process_trades"} \/ ReturnedOk =>
          /\ joint_statement.cash_assets = LatestByStart(supplied).cash_assets
          /\ joint_statement.open_positions = LatestByStart(supplied).open_positions
          /\ BagOf(joint_statement.cash_flows)
                = BagOf(SuppliedEvents(supplied, "cash_flows"))
          /\ BagOf(LotsOf(joint_statement.stock_buys))
                = BagOf(SuppliedEvents(supplied, "stock_buys"))
          /\ BagOf(Unprocessed(joint_statement.stock_sells))
                = BagOf(SuppliedEvents(supplied, "stock_sells"))
    /\ pc = "taxes" =>
          BagOf(joint_statement.dividends) = BagOf(SuppliedEvents(supplied, "dividends"))

\* Scenario A: the first statement buys a unit, the second one holds no
\* trade and declares the position; the directory lists the second first.
C12_Witness ==
    /\ ReturnedOk
    /\ Len(supplied) = 2
    /\ supplied[1].stock_buys = <<>>
    /\ supplied[1].open_positions = {<<"A", 1>>}
    /\ supplied[2].open_positions = {<<"A", 1>>}
    /\ Len(joint_statement.stock_buys) = 1
    /\ joint_statement.stock_buys[1].sold = 0
    /\ joint_statement.stock_sells = <<>>
    /\ joint_statement.open_positions = {<<"A", 1>>}

(***************************************************************************)
(* What the properties below say about taxes.                              *)
(***************************************************************************)
\* The tax ids some statement carries tax changes for.
SuppliedTaxIds ==
    UNION {{entry[1] : entry \in supplied[i].tax_changes} : i \in DOMAIN supplied}

\* The tax ids of the deferred dividends of all statements.
DeferredTaxIds ==
    UNION {{<<supplied[i].dividends_without_paid_tax[k].date,
              supplied[i].dividends_without_paid_tax[k].description>> :
                k \in DOMAIN supplied[i].dividends_without_paid_tax} :
              i \in DOMAIN supplied}

(***************************************************************************)
(* C13.  When a tax id with accumulated tax changes is the id of no        *)
(* deferred dividend, new_from fails, and once the statements are merged   *)
(* it fails with the error that lists exactly these tax ids; it returns    *)
(* this error in no other case, and goes on to validation only with every  *)
(* accumulated tax taken by a dividend.                                    *)
(***************************************************************************)
C13_UnknownTaxes ==
    LET unclaimed == SuppliedTaxIds \ DeferredTaxIds
    IN /\ Returned /\ unclaimed # {} => result # Ok
       /\ Returned /\ Continuous(supplied)
             /\ ~FirstByStart(supplied).starting_assets =>
             IF unclaimed # {}
             THEN result = ErrTaxes("UnknownTaxes", unclaimed)
             ELSE result.kind # "UnknownTaxes"
       /\ result.kind = "UnknownTaxes" => result.taxes = keys(taxes) /\ taxes # {}
       /\ pc \in {"validate", "process_trades"} \/ ReturnedOk =>
             taxes = {} /\ tax_changes = {}

\* Two statements: the tax of one description is taken by a dividend, the
\* tax of the other one is left.
C13_Witness ==
    /\ Returned
    /\ result = ErrTaxes("UnknownTaxes", {<<1, "Y">>})
    /\ Len(supplied) = 2
    /\ \E k \in DOMAIN joint_statement.dividends :
          joint_statement.dividends[k].paid_tax = 2

(***************************************************************************)
(* C14.  The tax changes of one tax id in all statements make one net tax, *)
(* and the deferred dividend of that id gets it as its paid tax, whether   *)
(* the changes came with its own statement, an earlier or a later one; a   *)
(* deferred dividend whose id has no tax changes gets zero.  (Stated for   *)
(* directories whose deferred dividends have ids of their own.)            *)
(***************************************************************************)
\* The sum of the adjustments of a tax id in all statements of the list.
RECURSIVE NetTax(_, _)
NetTax(list, tax_id) ==
    IF list = <<>> THEN 0
    ELSE (IF tax_id \in keys(Head(list).tax_changes)
          THEN SumSeq(get(Head(list).tax_changes, tax_id)) ELSE 0)
         + NetTax(Tail(list), tax_id)

Resolved(dividend) ==
    [date |-> dividend.date, amount |-> dividend.amount,
     paid_tax |-> IF <<dividend.date, dividend.description>> \in SuppliedTaxIds
                  THEN NetTax(supplied, <<dividend.date, dividend.description>>)
                  ELSE 0]

C14_TaxBackfill ==
    LET deferred == SuppliedEvents(supplied, "dividends_without_paid_tax")
    IN /\ pc = "validate"
       /\ \A k, m \in DOMAIN deferred :
             k # m => deferred[k].description # deferred[m].description
             \/ deferred[k].date # deferred[m].date
       => BagOf(joint_statement.dividends)
              = BagOf(SuppliedEvents(supplied, "dividends")
                          \o [k \in DOMAIN deferred |-> Resolved(deferred[k])])

\* The dividend and a withheld tax of 2 come with the earlier statement, a
\* refund of 1 of it with the later one, which the directory lists first
\* and which holds a dividend without any tax.
C14_Witness ==
    /\ ReturnedOk
    /\ Len(supplied) = 2
    /\ supplied[1].period = <<2, 4>>
    /\ supplied[1].tax_changes = {<<<<1, "X">>, <<-1>>>>}
    /\ supplied[1].dividends_without_paid_tax
          = <<DividendWithoutPaidTax(1, "Y", 10)>>
    /\ supplied[2].tax_changes = {<<<<1, "X">>, <<2>>>>}
    /\ supplied[2].dividends_without_paid_tax
          = <<DividendWithoutPaidTax(1, "X", 10)>>
    /\ joint_statement.dividends
          = <<Dividend(1, 10, 1), Dividend(1, 10, 0)>>

(***************************************************************************)
(* C15.  In a statement new_from returns, the dates of the cash flows and  *)
(* of the dividends and the conclusion dates of the buys and of the sells  *)
(* are days of the period (its start included, its end not), and the cash  *)
(* flows and the dividends are sorted by date.  A directory that holds an  *)
(* event dated outside the joint period is not read successfully, and the  *)
(* "outside of statement period" errors are returned for such events only. *)
(***************************************************************************)
InPeriod(period, date) == period[1] <= date /\ date < period[2]

DateSorted(events) ==
    \A i, j \in DOMAIN events : i < j => events[i].date <= events[j].date

\* The dates of the events of one kind in the statements supplied.
SuppliedDates(kind) ==
    LET events == SuppliedEvents(supplied, kind)
    IN IF kind \in {"stock_buys", "stock_sells"}
       THEN {events[k].conclusion_date : k \in DOMAIN events}
       ELSE {events[k].date : k \in DOMAIN events}

SuppliedPeriod ==
    <<FirstByStart(supplied).period[1], LatestByStart(supplied).period[2]>>

SomeOutside(dates) == \E date \in dates : ~InPeriod(SuppliedPeriod, date)

C15_DatesInPeriod ==
    /\ ReturnedOk =>
          /\ \A k \in DOMAIN joint_statement.cash_flows :
                InPeriod(joint_statement.period, joint_statement.cash_flows[k].date)
          /\ \A k \in DOMAIN joint_statement.stock_buys :
                InPeriod(joint_statement.period,
                         joint_statement.stock_buys[k].conclusion_date)
          /\ \A k \in DOMAIN joint_statement.stock_sells :
                InPeriod(joint_statement.period,
                         joint_statement.stock_sells[k].conclusion_date)
          /\ \A k \in DOMAIN joint_statement.dividends :
                InPeriod(joint_statement.period, joint_statement.dividends[k].date)
          /\ DateSorted(joint_statement.cash_flows)
          /\ DateSorted(joint_statement.dividends)
    /\ Returned
          /\ \/ SomeOutside(SuppliedDates("cash_flows"))
             \/ SomeOutside(SuppliedDates("stock_buys"))
             \/ SomeOutside(SuppliedDates("stock_sells"))
             \/ SomeOutside(SuppliedDates("dividends"))
             \/ SomeOutside(SuppliedDates("dividends_without_paid_tax"))
          => result # Ok
    /\ result.kind = "CashFlowOutsidePeriod" => SomeOutside(SuppliedDates("cash_flows"))
    /\ result.kind = "BuyOutsidePeriod" => SomeOutside(SuppliedDates("stock_buys"))
    /\ result.kind = "SellOutsidePeriod" => SomeOutside(SuppliedDates("stock_sells"))
    /\ result.kind = "DividendOutsidePeriod" =>
          \/ SomeOutside(SuppliedDates("dividends"))
          \/ SomeOutside(SuppliedDates("dividends_without_paid_tax"))

\* A cash flow on the day the period ends, listed before an earlier one.
C15_Witness ==
    /\ Returned
    /\ result = Err("CashFlowOutsidePeriod")
    /\ joint_statement.period = <<1, 2>>
    /\ Len(supplied) = 1
    /\ Len(supplied[1].cash_flows) = 2
    /\ supplied[1].cash_flows[1].date = 3
    /\ joint_statement.cash_flows[1].date = 1
    /\ joint_statement.cash_flows[2].date = 3

(***************************************************************************)
(* The parser of delimited tables.                                         *)
(***************************************************************************)
\* The section whose records are being read.
ActiveSection == records[spec][1]

\* The next record of the active section's loop is a well-formed one (of
\* three fields at least; shorter ones are rejected as invalid before
\* their section name is looked at) that ends the section.
EndsSection ==
    /\ ib_pc = "rows"
    /\ position <= Len(records)
    /\ Len(records[position]) >= 3
    /\ \/ records[position][1] # ActiveSection
       \/ records[position][2] = "Header"

IsHeader(i) == Len(records[i]) >= 3 /\ records[i][2] = "Header"

\* The record is a data row of a section with a handler, which the handler
\* accepts.
IsDataRow(i) ==
    records[i] \in {<<"Trades", "Data", "1">>,
                    <<"Deposits & Withdrawals", "Data", "1">>}

\* The headers of the record's own section name before it.
OwnHeaders(i) == {h \in 1..(i - 1) : IsHeader(h) /\ records[h][1] = records[i][1]}

LastOwnHeader(i) == CHOOSE h \in OwnHeaders(i) : \A g \in OwnHeaders(i) : g <= h

\* The parser has read the record and has done with it.
DealtWith(i) ==
    /\ i < position
    /\ ~(state.tag \in {"Record", "Header"} /\ state.record = i)

HandledUnder(h, i) == \E k \in DOMAIN parsed : parsed[k] = <<h, i>>

\* Only records of the header's section and no other header lie between
\* the header and the record.
Contiguous(h, i) ==
    \A k \in (h + 1)..i : records[k][1] = records[h][1] /\ ~IsHeader(k)

\* A data row of a section that was declared by a header is handled under
\* the most recent header of its section name, whatever lies between the
\* two.
C17_UnderOwnHeader ==
    \A i \in DOMAIN records :
        IsDataRow(i) /\ DealtWith(i) /\ OwnHeaders(i) # {}
            => HandledUnder(LastOwnHeader(i), i)

\* C17: a data row is handled under the most recently declared header of
\* its own section name when nothing but records of this section lies
\* between the two, and under no other header; a data row that follows a
\* record of another section is not handled at all: the parse fails with
\* an invalid record.
C17_UnderPrecedingHeader ==
    /\ \A k \in DOMAIN parsed :
          LET h == parsed[k][1]
              i == parsed[k][2]
          IN /\ h < i
             /\ IsHeader(h)
             /\ Contiguous(h, i)
    /\ \A i \in DOMAIN records :
          IsDataRow(i) /\ DealtWith(i) =>
              /\ (OwnHeaders(i) # {} /\ Contiguous(LastOwnHeader(i), i))
                    => HandledUnder(LastOwnHeader(i), i)
              /\ (i = 1 \/ records[i - 1][1] # records[i][1]) =>
                    /\ ib_result = Err("InvalidRecord")
                    /\ \A h \in DOMAIN records : ~HandledUnder(h, i)

\* A data row of the first section after the header of a second one.
C17_Witness ==
    /\ Len(records) = 4
    /\ records[1] = <<"Trades", "Header", "c1">>
    /\ records[2] = <<"Trades", "Data", "1">>
    /\ records[3] = <<"Notes", "Header", "c1">>
    /\ records[4] = <<"Trades", "Data", "1">>
    /\ DealtWith(4)
    /\ parsed = <<<<1, 2>>>>
    /\ ib_result = Err("InvalidRecord")

\* The section names with a handler of their own (lines 97-107).
ModeledSections ==
    {"Statement", "Account Information", "Change in NAV", "Cash Report",
     "Open Positions", "Trades", "Deposits & Withdrawals", "Dividends",
     "Withholding Tax", "Interest", "Financial Instrument Information"}

\* The next record of the section loop is a row of the active section,
\* whose name has no handler of its own (a row of less than three fields
\* is rejected before any handler is asked).
UnknownSectionRow ==
    /\ ib_pc = "rows"
    /\ ActiveSection \notin ModeledSections
    /\ position <= Len(records)
    /\ Len(records[position]) >= 3
    /\ records[position][1] = ActiveSection
    /\ records[position][2] # "Header"

\* C18: a header whose section name is none of the modeled ones selects a
\* handler that does nothing: a row of that section changes nothing in the
\* partial statement and does not make the parse fail, and the section
\* stays active.
C18_UnknownSection ==
    [][UnknownSectionRow =>
          /\ parsed' = parsed
          /\ ib_result' = Running
          /\ ib_pc' = "rows"
          /\ spec' = spec
          /\ position' = position + 1]_vars

\* A data row of an unmodeled section has been read after a modeled
\* section with a handled row.
C18_Witness ==
    /\ Len(records) = 4
    /\ records[3] = <<"Notes", "Header", "c1">>
    /\ records[4] = <<"Notes", "Data", "1">>
    /\ spec = 3
    /\ position = 5
    /\ ib_pc = "rows"
    /\ ib_result = Running
    /\ parsed = <<<<1, 2>>>>

(***************************************************************************)
(* The parser of tagged documents.                                         *)
(***************************************************************************)
\* The cash flow is one of the transfers of the lending programme.
IsTransfer(cash_flow) ==
    cash_flow.transaction.name \in {"XFER CASH FROM FFS", "XFER FFS TO CASH"}

IsOtherCashFlow(cash_flow) == ~IsTransfer(cash_flow)

\* The cash flows of the document that are no transfers, in their order.
OtherCashFlows == SelectSeq(transactions.cash_flows, IsOtherCashFlow)

\* The sum of the amounts of the transfers of the list.
RECURSIVE TransferSum(_)
TransferSum(list) ==
    IF list = <<>> THEN 0
    ELSE (IF IsTransfer(Head(list)) THEN Head(list).transaction.amount ELSE 0)
         + TransferSum(Tail(list))

\* C19: the transfers named "XFER CASH FROM FFS" and "XFER FFS TO CASH"
\* never get into the cash flows of the statement, of whatever type and
\* sign they are: the cash flows recorded are the first of the other cash
\* flows of the document, each of type CREDIT and of a strictly positive
\* amount; and a document whose transfers do not sum to zero is not parsed
\* successfully: once its cash flows are read without another error the
\* parse fails for the balance, which it does for no other document.
C19_TransferNetting ==
    /\ Len(parser_statement.cash_flows) <= Len(OtherCashFlows)
    /\ \A k \in DOMAIN parser_statement.cash_flows :
          /\ OtherCashFlows[k].transaction.type = "CREDIT"
          /\ OtherCashFlows[k].transaction.amount > 0
          /\ parser_statement.cash_flows[k].amount = OtherCashFlows[k].transaction.amount
          /\ parser_statement.cash_flows[k].date = OtherCashFlows[k].transaction.date
          /\ parser_statement.cash_flows[k].amount > 0
    /\ TransferSum(transactions.cash_flows) # 0 =>
          /\ fr_result # Ok
          /\ fr_pc \in {"cash_flows", "done"}
          /\ Len(parser_statement.cash_flows) = Len(OtherCashFlows)
                => fr_pc = "cash_flows" \/ fr_result = Err("FfsBalance")
    /\ fr_result = Err("FfsBalance") => TransferSum(transactions.cash_flows) # 0
    /\ (fr_result = Ok /\ transactions.cash_flows # <<>>) =>
          /\ TransferSum(transactions.cash_flows) = 0
          /\ Len(parser_statement.cash_flows) = Len(OtherCashFlows)

\* Two transfers that cancel out, one of them a debit, and a deposit: the
\* deposit alone is recorded.
C19_Witness ==
    /\ fr_result = Ok
    /\ Len(transactions.cash_flows) = 3
    /\ IsTransfer(transactions.cash_flows[1])
    /\ transactions.cash_flows[1].transaction.amount = 1
    /\ transactions.cash_flows[1].transaction.type = "CREDIT"
    /\ IsOtherCashFlow(transactions.cash_flows[2])
    /\ IsTransfer(transactions.cash_flows[3])
    /\ transactions.cash_flows[3].transaction.type = "DEBIT"
    /\ transactions.cash_flows[3].sub_account = "MARGIN"
    /\ parser_statement.cash_flows = <<[date |-> 1, amount |-> 1]>>

\* The document holds one stock trade and its parse has returned.
TradeReturned ==
    /\ fr_pc = "done"
    /\ Len(transactions.stock_buys) + Len(transactions.other_buys)
          + Len(transactions.stock_sells) = 1

\* The trade of the document, whether it is a buy, and whether its type is
\* the one its list supports (a reinvestment buy carries none).
TheTrade ==
    IF transactions.stock_buys # <<>> THEN transactions.stock_buys[1].transaction
    ELSE IF transactions.other_buys # <<>> THEN transactions.other_buys[1].transaction
    ELSE transactions.stock_sells[1].transaction

IsBuy == transactions.stock_sells = <<>>

SupportedType ==
    /\ transactions.stock_buys # <<>> => transactions.stock_buys[1].type = "BUY"
    /\ transactions.stock_sells # <<>> => transactions.stock_sells[1].type = "SELL"

\* Valid sub-accounts and a stock security.
GivenTrade ==
    /\ TheTrade.sub_account_from = "CASH"
    /\ TheTrade.sub_account_to = "CASH"
    /\ TheTrade.security = "Stock"

RecordedTrades == IF IsBuy THEN parser_statement.stock_buys ELSE parser_statement.stock_sells

Recorded ==
    /\ Len(RecordedTrades) = 1
    /\ Len(parser_statement.stock_buys) + Len(parser_statement.stock_sells) = 1

\* The signs the units, the price and the total of a trade must have.
SignsValid ==
    /\ IF IsBuy THEN TheTrade.units > 0 ELSE TheTrade.units < 0
    /\ TheTrade.price > 0
    /\ IF IsBuy THEN TheTrade.total < 0 ELSE TheTrade.total > 0

\* The total less the commission and the fees (plus them for a sell) is
\* the price times the quantity.
TotalConsistent ==
    LET magnitude(value) == IF value < 0 THEN 0 - value ELSE value
        charges == TheTrade.commission + TheTrade.fees
    IN magnitude(TheTrade.total) + (IF IsBuy THEN 0 - charges ELSE charges)
          = TheTrade.price * magnitude(TheTrade.units)

\* Given valid sub-accounts, a stock security and a supported type, the
\* trade is recorded exactly when the signs are valid and the commission
\* plus the fees is not negative, and the parse fails otherwise.
C20_CommissionPlusFees ==
    (TradeReturned /\ GivenTrade /\ SupportedType) =>
        /\ Recorded <=> (SignsValid /\ TheTrade.commission + TheTrade.fees >= 0)
        /\ ~Recorded => fr_result # Ok

\* C20: given valid sub-accounts, a stock security and a supported type, a
\* stock trade is recorded exactly when its units are strictly positive
\* for a buy and strictly negative for a sell, its price is strictly
\* positive, its commission and its fees are each not negative, its total
\* is strictly negative for a buy and strictly positive for a sell, and,
\* in a build with debug assertions, the total is consistent with price
\* times quantity; otherwise the parse fails and nothing is recorded.
\* Without the given the parse fails too.  Every recorded trade has a
\* strictly positive quantity, the magnitude of the units.
C20_StockTradeValidation ==
    /\ TradeReturned =>
          /\ Recorded <=>
                /\ GivenTrade
                /\ SupportedType
                /\ SignsValid
                /\ TheTrade.commission >= 0
                /\ TheTrade.fees >= 0
                /\ debug_assertions => TotalConsistent
          /\ Recorded <=> fr_result = Ok
          /\ ~Recorded =>
                /\ parser_statement.stock_buys = <<>>
                /\ parser_statement.stock_sells = <<>>
          /\ fr_result = Err("DebugAssertEq") => debug_assertions /\ ~TotalConsistent
    /\ \A list \in {parser_statement.stock_buys, parser_statement.stock_sells} :
          \A k \in DOMAIN list :
              /\ list[k].quantity > 0
              /\ list[k].quantity \in {TheTrade.units, 0 - TheTrade.units}
              /\ list[k].commission = TheTrade.commission + TheTrade.fees

\* A buy with a commission is recorded in a build with debug assertions.
C20_Witness ==
    /\ TradeReturned
    /\ debug_assertions
    /\ fr_result = Ok
    /\ transactions.stock_buys # <<>>
    /\ TheTrade.commission = 1
    /\ TheTrade.total = 0 - 2
    /\ parser_statement.stock_buys =
          <<[symbol |-> "A", quantity |-> 1, price |-> 1, volume |-> 1, commission |-> 1]>>

\* The document holds one income record; the record.
OneIncome == Len(transactions.income) = 1

TheIncome == transactions.income[1]

\* What the claim asks of an income record.
IncomeAcceptable ==
    /\ TheIncome.execution_date = TheIncome.conclusion_date
    /\ \/ /\ TheIncome.type = "MISC"
          /\ TheIncome.security = "Interest"
          /\ TheIncome.total # 0
       \/ /\ TheIncome.type = "DIV"
          /\ TheIncome.security = "Stock"
          /\ TheIncome.total > 0

IncomeRecorded ==
    Len(parser_statement.idle_cash_interest) + Len(parser_statement.dividends)

\* C21: an income record is accepted only if its settlement date is its
\* trade date and it is interest (type MISC, an interest security, a
\* non-zero amount) or a dividend (type DIV, a stock security, a strictly
\* positive amount); a record of any other combination or of another
\* settlement date fails the parse, and nothing is recorded for it.  An
\* accepted record is recorded as what it is.
C21_IncomeAccepted ==
    OneIncome =>
        /\ IncomeRecorded <= 1
        /\ fr_result = Ok => IncomeRecorded = 1
        /\ IncomeRecorded = 1 => fr_result \in {Running, Ok} /\ IncomeAcceptable
        /\ (fr_pc = "done" /\ ~IncomeAcceptable) =>
              /\ fr_result \notin {Ok, Running}
              /\ IncomeRecorded = 0
        /\ parser_statement.idle_cash_interest # <<>> =>
              /\ TheIncome.type = "MISC"
              /\ parser_statement.idle_cash_interest[1].amount = TheIncome.total
        /\ parser_statement.dividends # <<>> => TheIncome.type = "DIV"

\* Interest of a negative amount is accepted.
C21_Witness ==
    /\ OneIncome
    /\ fr_result = Ok
    /\ TheIncome.total < 0
    /\ parser_statement.idle_cash_interest = <<[date |-> 1, amount |-> 0 - 1]>>
    /\ parser_statement.dividends = <<>>

(***************************************************************************)
(* Taxes.                                                                  *)
(***************************************************************************)
\* C22: for a dividend reported with a net amount n > 0 the recorded
\* gross amount is deduce_income(n), and the recorded tax t is such that
\* the gross amount less t is n and t is tax_to_pay of the gross amount
\* with no paid tax, at the rate of the country of the dividend: the
\* assertion of parse_dividend holds for every n.  A net amount of 85
\* gives the gross amount 100 and the tax 15.
C22_GrossUp ==
    tax_pc = "parse_dividend" =>
        /\ deduced_dividend.amount = deduce_income(us, income)
        /\ deduced_dividend.amount - deduced_dividend.paid_tax = income
        /\ ~tax_to_pay(us, deduced_dividend.amount, None).panic
        /\ deduced_dividend.paid_tax = tax_to_pay(us, deduced_dividend.amount, None).value
        /\ deduced_dividend.paid_tax = round_div(deduced_dividend.amount * 15, 100)
        /\ income = 85 => deduced_dividend = [amount |-> 100, paid_tax |-> 15]

\* The dividend of the net amount 85.
C22_Witness ==
    /\ tax_pc = "parse_dividend"
    /\ income = 85
    /\ deduced_dividend = [amount |-> 100, paid_tax |-> 15]

\* round(income * rate) and round(paid_tax) of the call.
RoundedTax == round_tax(country, income * country.tax_rate, 100)

RoundedPaidTax == round_tax(country, paid_tax.value, 1)

TaxReturned == tax_pc = "tax_to_pay"

\* tax_to_pay returns 0 for an income that is not positive, and otherwise
\* round(income * rate) without a paid tax and max(0, round(income * rate)
\* - round(paid_tax)) with one, whatever the paid tax is; the result is
\* never negative and never above round(income * rate).
C23_ForEveryCall ==
    TaxReturned =>
        /\ ~tax.panic
        /\ income <= 0 => tax.value = 0
        /\ (income > 0 /\ ~paid_tax.some) => tax.value = RoundedTax
        /\ (income > 0 /\ paid_tax.some) =>
              tax.value = Max(0, RoundedTax - RoundedPaidTax)
        /\ tax.value >= 0
        /\ tax.value <= RoundedTax

\* C23: tax_to_pay returns 0 for an income that is not positive; for a
\* positive income it returns round(income * rate) without a paid tax and
\* max(0, round(income * rate) - round(paid_tax)) with a paid tax that is
\* not negative, and panics on a negative paid tax.  What it returns is
\* never negative and, for a positive income, never above
\* round(income * rate), which is negative for some negative incomes.
C23_TaxToPay ==
    TaxReturned =>
        /\ income <= 0 => ~tax.panic /\ tax.value = 0
        /\ (income > 0 /\ ~paid_tax.some) => ~tax.panic /\ tax.value = RoundedTax
        /\ (income > 0 /\ paid_tax.some /\ paid_tax.value >= 0) =>
              /\ ~tax.panic
              /\ tax.value = Max(0, RoundedTax - RoundedPaidTax)
        /\ (income > 0 /\ paid_tax.some /\ paid_tax.value < 0) => tax.panic
        /\ ~tax.panic =>
              /\ tax.value >= 0
              /\ income > 0 => tax.value <= RoundedTax
              /\ tax.value <= Max(0, RoundedTax)

\* A paid tax that rounds to less than the rounded tax of the income.
C23_Witness ==
    /\ TaxReturned
    /\ country = russia
    /\ income = 2000
    /\ paid_tax = Some(51)
    /\ tax = [panic |-> FALSE, value |-> 200]

(***************************************************************************)
(* The diagnostic of the dividends without details.                        *)
(***************************************************************************)
\* The next step parses a dividend that gets as far as parse_dividend.
DividendReached ==
    /\ fr_pc = "income"
    /\ index <= Len(transactions.income)
    /\ LET next == transactions.income[index]
       IN /\ next.sub_account_from = "CASH"
          /\ next.sub_account_to = "CASH"
          /\ next.execution_date = next.conclusion_date
          /\ next.type = "DIV"
          /\ next.security = "Stock"
          /\ next.total > 0

\* C24: a reader emits the diagnostic of the dividends without details at
\* most once: at the first dividend that gets to parse_dividend while
\* the flag of the reader is set, which clears the flag; every later
\* dividend is parsed without it, and so is every dividend of a reader
\* whose flag an earlier document has cleared.
C24_OneDiagnostic ==
    /\ [](/\ warnings <= 1
          /\ warnings = 1 => ~warn_on_missing_dividend_details)
    /\ [][/\ (DividendReached /\ warn_on_missing_dividend_details) =>
                /\ warnings' = warnings + 1
                /\ ~warn_on_missing_dividend_details'
          /\ ~(DividendReached /\ warn_on_missing_dividend_details) =>
                /\ warnings' = warnings
                /\ warn_on_missing_dividend_details' = warn_on_missing_dividend_details
          /\ (DividendReached /\ ~warn_on_missing_dividend_details
                /\ transactions.income[index].memo = "DIVIDEND") =>
                Len(parser_statement'.dividends) = Len(parser_statement.dividends) + 1]_vars

\* Three dividends are recorded after one diagnostic.
C24_Witness ==
    /\ fr_result = Ok
    /\ warnings = 1
    /\ Len(parser_statement.dividends) = 3

(***************************************************************************)
(* The lot a source was taken from: a buy of the sell's symbol with the    *)
(* source's dates.                                                         *)
(***************************************************************************)
SourceLots(stock_sell, source) ==
    {n \in DOMAIN joint_statement.stock_buys :
        /\ joint_statement.stock_buys[n].symbol = stock_sell.symbol
        /\ joint_statement.stock_buys[n].conclusion_date = source.conclusion_date
        /\ joint_statement.stock_buys[n].execution_date = source.execution_date}

\* The source carries the lot's unit price.
CarriesPrice(source, lot) == source.price = lot.price

\* source.commission = lot.commission * consumed / lot.quantity.
CarriesCommission(source, lot) ==
    /\ source.commission * lot.quantity = lot.commission * source.quantity
    /\ source.quantity = lot.quantity => source.commission = lot.commission

SourcesOfLots(carries(_, _)) ==
    (pc = "done" /\ result = Ok) =>
        \A i \in DOMAIN joint_statement.stock_sells :
            \A n \in DOMAIN joint_statement.stock_sells[i].sources :
                \E lot \in SourceLots(joint_statement.stock_sells[i],
                                  joint_statement.stock_sells[i].sources[n]) :
                    carries(joint_statement.stock_sells[i].sources[n],
                            joint_statement.stock_buys[lot])

\* What holds of every source: it carries the price and the dates of a lot
\* of the sell's symbol.
SourcePriceAndDates == SourcesOfLots(CarriesPrice)

(***************************************************************************)
(* C25: every source recorded by process_trades carries the consumed lot's *)
(* unit price, its conclusion and execution dates, and a commission equal  *)
(* to lot.commission * consumed / lot.quantity, lot.quantity being the     *)
(* lot's total quantity; a sell that consumes a whole lot gets the lot's   *)
(* full commission exactly.                                                *)
(***************************************************************************)
C25_SourceCommission ==
    /\ SourcesOfLots(CarriesPrice)
    /\ SourcesOfLots(CarriesCommission)

\* A lot of three units and a commission of 1 sold whole.
WholeLotOfThreeSold ==
    /\ pc = "done" /\ result = Ok
    /\ \E i \in DOMAIN joint_statement.stock_sells :
          \E n \in DOMAIN joint_statement.stock_sells[i].sources :
              \E lot \in SourceLots(joint_statement.stock_sells[i],
                                joint_statement.stock_sells[i].sources[n]) :
                  /\ joint_statement.stock_buys[lot].quantity = 3
                  /\ joint_statement.stock_buys[lot].commission = decimal(1)
                  /\ joint_statement.stock_sells[i].sources[n].quantity = 3

(***************************************************************************)
(* The next record is a record of the active section that is not its       *)
(* header: the record the lists of the handler are applied to.             *)
(***************************************************************************)
SectionRow ==
    /\ ib_pc = "rows"
    /\ position <= Len(records)
    /\ records[position] # CsvError
    /\ Len(records[position]) >= 3
    /\ records[position][1] = ActiveSection
    /\ records[position][2] # "Header"

\* What the handler of the active section declares.
Handler == select_parser(ActiveSection)

DenyListed ==
    Handler.skip_data_types.some
        /\ records[position][2] \in Handler.skip_data_types.types

NotAllowed ==
    Handler.data_types.some /\ records[position][2] \notin Handler.data_types.types

TotalsRow ==
    Handler.skip_totals /\ records[position][3] \in {"Total", "Total in USD"}

\* The record is passed over: nothing is kept of it and the loop goes on.
RowSkipped ==
    /\ parsed' = parsed
    /\ ib_result' = Running
    /\ ib_pc' = "rows"
    /\ spec' = spec
    /\ position' = position + 1

RowFailsAsInvalidType ==
    /\ parsed' = parsed
    /\ ib_result' = Err("InvalidDataRecordType")
    /\ ib_pc' = "done"

\* The handler is called with the record: it keeps the record under the
\* header of the section, or fails on it (the handler of the unknown
\* sections keeps nothing).
RowReachesHandler ==
    IF Handler = UnknownRecordParser THEN RowSkipped
    ELSE \/ /\ parsed' = Append(parsed, <<spec, position>>)
            /\ ib_result' = Running
            /\ ib_pc' = "rows"
         \/ /\ parsed' = parsed
            /\ ib_result' = Err("RecordParse")
            /\ ib_pc' = "done"

(***************************************************************************)
(* C26: inside an active section a row whose kind is in the deny-list of   *)
(* the handler is skipped silently, in the allow-list or not; otherwise a  *)
(* row whose kind is not in a declared allow-list fails the parse, a       *)
(* "Total" row under skip_totals included; otherwise a row whose third     *)
(* field starts with "Total" is skipped when skip_totals is set; only the  *)
(* remaining rows reach the handler.                                       *)
(***************************************************************************)
C26_RowFiltering ==
    [][SectionRow =>
          IF DenyListed THEN RowSkipped
          ELSE IF NotAllowed THEN RowFailsAsInvalidType
          ELSE IF TotalsRow THEN RowSkipped
          ELSE RowReachesHandler]_vars

\* A row of sub-totals of the trades, on the deny-list and not on the
\* allow-list, was passed over and the row after it was handled.
C26_Witness ==
    /\ Len(records) >= 3
    /\ records[1] = <<"Trades", "Header", "c1">>
    /\ records[2] = <<"Trades", "SubTotal", "1">>
    /\ records[3] = <<"Trades", "Data", "1">>
    /\ parsed = <<<<1, 3>>>>
    /\ ib_result = Ok

\* A "Total" row of a kind that is not allowed fails the parse under
\* skip_totals.
TotalRowOfInvalidType ==
    /\ Len(records) >= 2
    /\ records[1] = <<"Deposits & Withdrawals", "Header", "c1">>
    /\ records[2] = <<"Deposits & Withdrawals", "Notes", "Total">>
    /\ ib_result = Err("InvalidDataRecordType")

\* A row of totals of an allowed kind was passed over under skip_totals.
TotalRowSkipped ==
    /\ Len(records) >= 2
    /\ records[1] = <<"Deposits & Withdrawals", "Header", "c1">>
    /\ records[2] = <<"Deposits & Withdrawals", "Data", "Total in USD">>
    /\ parsed = <<>>
    /\ ib_result = Ok

(***************************************************************************)
(* A sell was appended by emulate_sell_order to a statement built with     *)
(* success and process_trades is about to run on it.                       *)
(***************************************************************************)
SellEmulated ==
    /\ pc = "process_trades"
    /\ Len(joint_statement.stock_sells) = SuppliedSellCount + 1

EmulatedSell(statement) == statement.stock_sells[Len(statement.stock_sells)]

\* The units of the symbol that are not sold yet.
UnsoldUnits(statement, symbol) ==
    SumOver([k \in DOMAIN statement.stock_buys |->
                IF statement.stock_buys[k].symbol = symbol
                THEN get_unsold(statement.stock_buys[k]) ELSE 0],
            DOMAIN statement.stock_buys)

Covered ==
    UnsoldUnits(joint_statement, EmulatedSell(joint_statement).symbol)
        >= EmulatedSell(joint_statement).quantity

\* The emulated sell has got sources whose quantities add up to its own.
EmulatedSellMatched ==
    LET stock_sell == EmulatedSell(joint_statement)'
    IN /\ stock_sell.sources # <<>>
       /\ SumOver(QuantitiesOf(stock_sell.sources), DOMAIN stock_sell.sources)
             = stock_sell.quantity

(***************************************************************************)
(* C27: after a successful build, a sell appended by emulate_sell_order    *)
(* for a symbol whose unsold lots cover the quantity asked for, followed   *)
(* by process_trades, returns success and gives the emulated sell sources  *)
(* whose quantities add up to its quantity.                                *)
(***************************************************************************)
C27_EmulatedSellSucceeds ==
    [][(SellEmulated /\ Covered) => (result' = Ok /\ EmulatedSellMatched)]_vars

\* What the call does: the sell gets its sources and the call fails on the
\* open positions, which the statement declared before the sell.
EmulatedSellMismatch ==
    [][(SellEmulated /\ Covered) =>
          /\ EmulatedSellMatched
          /\ result' = Err("OpenPositionsMismatch")
          /\ joint_statement'.open_positions = joint_statement.open_positions]_vars

\* process_trades has run on a covered emulated sell.
EmulatedSellProcessed ==
    /\ Returned
    /\ Len(joint_statement.stock_sells) = SuppliedSellCount + 1
    /\ EmulatedSell(joint_statement).sources # <<>>

(***************************************************************************)
(* The lots of a symbol that are sold in part, and the lots that are still *)
(* open (not sold out).                                                    *)
(***************************************************************************)
PartlySold(stock_buys, symbol) ==
    {k \in DOMAIN stock_buys :
        /\ stock_buys[k].symbol = symbol
        /\ 0 < get_unsold(stock_buys[k])
        /\ get_unsold(stock_buys[k]) < stock_buys[k].quantity}

OpenLots(stock_buys, symbol) ==
    {k \in DOMAIN stock_buys :
        stock_buys[k].symbol = symbol /\ ~is_sold(stock_buys[k])}

\* Bought before: by the conclusion date, then by the execution date.
BoughtBefore(earlier, later) ==
    \/ earlier.conclusion_date < later.conclusion_date
    \/ /\ earlier.conclusion_date = later.conclusion_date
       /\ earlier.execution_date < later.execution_date

AtMostOnePartlySold ==
    \A symbol \in Symbols :
        Cardinality(PartlySold(joint_statement.stock_buys, symbol)) <= 1

NoEarlierOpenLot ==
    \A symbol \in Symbols :
        \A k \in PartlySold(joint_statement.stock_buys, symbol) :
            \A m \in OpenLots(joint_statement.stock_buys, symbol) :
                ~BoughtBefore(joint_statement.stock_buys[m],
                              joint_statement.stock_buys[k])

(***************************************************************************)
(* C28: after any sequence of process_trades and emulate_sell_order calls  *)
(* each symbol has at most one buy lot that is sold in part, and no lot of *)
(* the symbol that was bought before it is still open.                     *)
(***************************************************************************)
C28_OnePartlySoldLot ==
    Returned => (AtMostOnePartlySold /\ NoEarlierOpenLot)

\* The same after the build alone, before any emulated sell.
OnePartlySoldLotAfterBuild ==
    (Returned /\ Len(joint_statement.stock_sells) = SuppliedSellCount) =>
        (AtMostOnePartlySold /\ NoEarlierOpenLot)

(***************************************************************************)
(* process_trades returns one of the two errors of its own.                *)
(***************************************************************************)
ProcessTradesFails ==
    /\ pc = "process_trades"
    /\ result'.kind \in {"NoOpenPositions", "OpenPositionsMismatch"}

(***************************************************************************)
(* C29: when process_trades returns an error (no open lots for a sell, or  *)
(* a mismatch of the open positions), the stock_buys list of the statement *)
(* still holds every lot it held before the call, with the sold quantities *)
(* it had before the call.                                                 *)
(***************************************************************************)
C29_LotsKeptOnError ==
    [][ProcessTradesFails =>
          BagOf(joint_statement'.stock_buys) = BagOf(joint_statement.stock_buys)]_vars

\* What the call leaves: no lot at all after the error of the matching
\* loop, and the lots with the quantities sold by the call after the
\* mismatch of the open positions.
LotsLeftOnError ==
    [][ProcessTradesFails =>
          IF result'.kind = "NoOpenPositions"
          THEN joint_statement'.stock_buys = <<>>
          ELSE BagOf(LotsOf(joint_statement'.stock_buys))
                  = BagOf(LotsOf(joint_statement.stock_buys))]_vars

\* The matching loop failed on a statement that held a lot.
LotsLostOnError ==
    /\ Returned
    /\ result.kind = "NoOpenPositions"
    /\ joint_statement.stock_buys = <<>>
    /\ \E i \in DOMAIN supplied : supplied[i].stock_buys # <<>>

(***************************************************************************)
(* The units of a symbol bought, sold by the processed sells, and left in  *)
(* the lots.                                                               *)
(***************************************************************************)
BoughtUnits(statement, symbol) ==
    SumOver([k \in DOMAIN statement.stock_buys |->
                IF statement.stock_buys[k].symbol = symbol
                THEN statement.stock_buys[k].quantity ELSE 0],
            DOMAIN statement.stock_buys)

ProcessedUnits(statement, symbol) ==
    SumOver([i \in DOMAIN statement.stock_sells |->
                IF /\ statement.stock_sells[i].symbol = symbol
                   /\ is_processed(statement.stock_sells[i])
                THEN statement.stock_sells[i].quantity ELSE 0],
            DOMAIN statement.stock_sells)

\* The quantity of a source is the sell_quantity of line 238, which line 239
\* asserts to be positive before the source is made.
SourcesPositive ==
    \A i \in DOMAIN joint_statement.stock_sells :
        \A n \in DOMAIN joint_statement.stock_sells[i].sources :
            joint_statement.stock_sells[i].sources[n].quantity >= 1

(***************************************************************************)
(* C30: after a successful process_trades, for every symbol the quantities *)
(* of its buy lots less the quantities of its processed sells are the      *)
(* unsold quantities of its lots, and every source recorded has a quantity *)
(* of 1 at least: the assert on sell_quantity > 0 never fails, as no lot    *)
(* with nothing unsold is in the list of its symbol.                       *)
(***************************************************************************)
C30_QuantityConservation ==
    /\ ReturnedOk =>
          \A symbol \in Symbols :
              BoughtUnits(joint_statement, symbol)
                    - ProcessedUnits(joint_statement, symbol)
                 = UnsoldUnits(joint_statement, symbol)
    /\ SourcesPositive

\* Two lots of a symbol, one sold out and one sold in part by a sell of
\* three units.
C30_Witness ==
    /\ ReturnedOk
    /\ \E k, m \in DOMAIN joint_statement.stock_buys :
          /\ joint_statement.stock_buys[k].symbol = "A"
          /\ joint_statement.stock_buys[m].symbol = "A"
          /\ is_sold(joint_statement.stock_buys[k])
          /\ joint_statement.stock_buys[m].sold = 1
          /\ joint_statement.stock_buys[m].quantity = 2
    /\ \E i \in DOMAIN joint_statement.stock_sells :
          /\ joint_statement.stock_sells[i].quantity = 3
          /\ Len(joint_statement.stock_sells[i].sources) = 2

(***************************************************************************)
(* The loop of the parser of delimited tables: its top (line 73), where    *)
(* the state is taken and unwrapped, the steps that read a record (lines   *)
(* 75 and 115), and its end.                                               *)
(***************************************************************************)
TopOfLoop == ib_pc = "top"

HoldsState == state.tag \in {"None", "Record", "Header"}

ReadsRecord ==
    /\ (TopOfLoop /\ state.tag = "None") \/ ib_pc = "rows"
    /\ position <= Len(records)

InLoop == ib_pc \in {"top", "rows"}

EndOfInput == position > Len(records)

IsError(outcome) == outcome.kind \notin {"Running", "Ok"}

\* Every record before the position of the reader has been read, once.
ReadOnce ==
    [][IF ReadsRecord THEN position' = position + 1
                      ELSE position' = position]_vars

\* The loop is left at the end of the input, or with an error.
LeftAtEndOrOnError ==
    [][(InLoop /\ ~InLoop') =>
          \/ EndOfInput /\ ib_pc' = "end" /\ ib_result' = Running
          \/ ib_pc' = "done" /\ IsError(ib_result')]_vars

LoopTerminates == <>(ib_pc = "done")

(***************************************************************************)
(* C31: the dispatch loop of the parser of delimited tables terminates for *)
(* every finite sequence of rows, reads each row exactly once, and holds a *)
(* state (None, Record or Header) whenever it is at the top of the loop,   *)
(* so that state.take().unwrap() never fails; it ends only at the end of   *)
(* the input or on an error.                                               *)
(***************************************************************************)
C31_LoopTerminates ==
    /\ [](TopOfLoop => HoldsState)
    /\ [](ib_pc = "end" => position = Len(records) + 1)
    /\ ReadOnce
    /\ LeftAtEndOrOnError
    /\ LoopTerminates

\* A document of four records, read to its end: a record without a header,
\* the header of the trades, a trade, and the header of another section.
C31_Witness ==
    /\ ib_pc = "done"
    /\ ib_result = Ok
    /\ records = << <<"Notes", "", "1">>, <<"Trades", "Header", "c1">>,
                    <<"Trades", "Data", "1">>, <<"Notes", "Header", "c1">> >>
    /\ position = 5
    /\ parsed = << <<2, 3>> >>
====
